---- MODULE Spec2Model ----
(***************************************************************************)
(* Energy Bodies: the session accumulator (OnlineMean, OnlineMeanArray,    *)
(* SessionAverager) and the pose-to-slider pipeline of src/js/sketch.js.   *)
(*                                                                         *)
(* Numbers.  A JavaScript number is modelled as an extended rational       *)
(* <<n, d>>: d > 0 is the finite value n/d in lowest terms, <<0,0>> is     *)
(* NaN, <<1,0>> is +Infinity and <<-1,0>> is -Infinity.  The arithmetic    *)
(* is exact (no rounding); <<0,-1>> stands for `undefined`.                *)
(***************************************************************************)
EXTENDS Integers, Sequences, FiniteSets, TLC

(***************************************************************************)
(* Extended rational arithmetic                                            *)
(***************************************************************************)
Abs(x) == IF x < 0 THEN -x ELSE x

RECURSIVE GCD(_, _)
GCD(a, b) == IF b = 0 THEN a ELSE GCD(b, a % b)

NaN == <<0, 0>>
PInf == <<1, 0>>
NInf == <<-1, 0>>
Undef == <<0, -1>>

\* the finite number n/d (d # 0) in lowest terms with a positive denominator
Q(n, d) ==
  LET g == GCD(Abs(n), Abs(d))
      s == IF d < 0 THEN -1 ELSE 1
  IN  <<(s * n) \div g, (s * d) \div g>>

I(n) == <<n, 1>>

IsFinite(x) == x[2] > 0
IsNaN(x) == x = NaN

Neg(a) == <<-a[1], a[2]>>

Add(a, b) ==
  IF a[2] > 0 /\ b[2] > 0
  THEN LET g == GCD(a[2], b[2])
       IN  Q(a[1] * (b[2] \div g) + b[1] * (a[2] \div g), (a[2] \div g) * b[2])
  ELSE IF a[2] < 0 \/ b[2] < 0 \/ IsNaN(a) \/ IsNaN(b) THEN NaN
  ELSE IF a[2] = 0 /\ b[2] = 0 THEN (IF a = b THEN a ELSE NaN)
  ELSE IF a[2] = 0 THEN a ELSE b

Sub(a, b) == Add(a, Neg(b))

Sign(n) == IF n > 0 THEN 1 ELSE IF n < 0 THEN -1 ELSE 0

Mul(a, b) ==
  IF a[2] > 0 /\ b[2] > 0
  THEN IF a[1] = 0 \/ b[1] = 0 THEN <<0, 1>>
       ELSE LET g1 == GCD(Abs(a[1]), b[2])
                g2 == GCD(Abs(b[1]), a[2])
            IN  <<(a[1] \div g1) * (b[1] \div g2), (a[2] \div g2) * (b[2] \div g1)>>
  ELSE IF a[2] < 0 \/ b[2] < 0 \/ IsNaN(a) \/ IsNaN(b) THEN NaN
  ELSE IF a[1] = 0 \/ b[1] = 0 THEN NaN
  ELSE <<Sign(a[1]) * Sign(b[1]), 0>>

\* 1/a; a zero divisor is +0 wherever the code divides (a distance or a count)
Inv(a) ==
  IF a[2] > 0
  THEN IF a[1] = 0 THEN PInf
       ELSE IF a[1] > 0 THEN <<a[2], a[1]>> ELSE <<-a[2], -a[1]>>
  ELSE IF a[2] = 0 /\ a[1] # 0 THEN <<0, 1>>
  ELSE NaN

Div(a, b) == Mul(a, Inv(b))

\* a < b as JavaScript compares: false when either side is NaN
Lt(a, b) ==
  IF a[2] < 0 \/ b[2] < 0 \/ IsNaN(a) \/ IsNaN(b) THEN FALSE
  ELSE IF a[2] = 0 \/ b[2] = 0
       THEN (IF a[2] = 0 THEN a[1] ELSE 0) < (IF b[2] = 0 THEN b[1] ELSE 0)
            \/ (a[2] = 0 /\ b[2] > 0 /\ a[1] < 0)
            \/ (b[2] = 0 /\ a[2] > 0 /\ b[1] > 0)
       ELSE a[1] * b[2] < b[1] * a[2]

Le(a, b) == Lt(a, b) \/ (a = b /\ ~IsNaN(a) /\ a[2] >= 0)

MathMax(a, b) == IF IsNaN(a) \/ IsNaN(b) \/ a[2] < 0 \/ b[2] < 0 THEN NaN
                 ELSE IF Lt(a, b) THEN b ELSE a

MathMin(a, b) == IF IsNaN(a) \/ IsNaN(b) \/ a[2] < 0 \/ b[2] < 0 THEN NaN
                 ELSE IF Lt(b, a) THEN b ELSE a

\* x ?? d
Coalesce(x, d) == IF x = Undef THEN d ELSE x

(***************************************************************************)
(* Names                                                                   *)
(***************************************************************************)
emotionNames == <<"anxiety", "sadness", "joy", "anger", "fear", "calm">>
regionNames == <<"head", "neck", "armsHands", "chest", "abdomen", "legsFeet">>

EmotionSet == {emotionNames[i] : i \in 1..Len(emotionNames)}
RegionSet == {regionNames[i] : i \in 1..Len(regionNames)}

Zeros(len) == [i \in 1..len |-> I(0)]

(***************************************************************************)
(* Averaging classes                                                       *)
(***************************************************************************)
\* new OnlineMean()
NewOnlineMean == [mean |-> I(0), n |-> 0]

\* OnlineMean.add with the finiteness test dropped
OnlineMeanAdd_noFiniteTest(m, x) ==
  [mean |-> Add(m.mean, Div(Sub(x, m.mean), I(m.n + 1))), n |-> m.n + 1]

\* OnlineMean.add(x)
OnlineMeanAdd(m, x) ==
  IF ~IsFinite(x) THEN m
  ELSE [mean |-> Add(m.mean, Div(Sub(x, m.mean), I(m.n + 1))), n |-> m.n + 1]

\* new OnlineMeanArray(len)
NewOnlineMeanArray(len) == [means |-> Zeros(len), n |-> 0]

\* OnlineMeanArray.add that weighs every sample by 1/2 instead of 1/n
OnlineMeanArrayAdd_halfWeight(a, arr) ==
  IF Len(arr) = 0 THEN a
  ELSE LET base == IF Len(a.means) # Len(arr) THEN Zeros(Len(arr)) ELSE a.means
       IN  [means |-> [i \in 1..Len(arr) |->
                         IF ~IsFinite(arr[i]) THEN base[i]
                         ELSE Add(base[i], Div(Sub(arr[i], base[i]), I(2)))],
            n |-> a.n + 1]

\* OnlineMeanArray.add(arr); an absent array is the empty sequence
OnlineMeanArrayAdd(a, arr) ==
  IF Len(arr) = 0 THEN a
  ELSE LET base == IF Len(a.means) # Len(arr) THEN Zeros(Len(arr)) ELSE a.means
           n1 == a.n + 1
       IN  [means |-> [i \in 1..Len(arr) |->
                         IF ~IsFinite(arr[i]) THEN base[i]
                         ELSE Add(base[i], Div(Sub(arr[i], base[i]), I(n1)))],
            n |-> n1]

RegionWidthsLen == 6
SegmentProfileLen == 3

\* the fields SessionAverager.reset() assigns
ResetFields ==
  [active |-> FALSE, startTs |-> 0, lastTs |-> 0, samples |-> 0,
   structure |-> NewOnlineMean, balance |-> NewOnlineMean,
   posture |-> NewOnlineMean, velocity |-> NewOnlineMean,
   emotions |-> [k \in EmotionSet |-> NewOnlineMean],
   regionWidths |-> NewOnlineMeanArray(RegionWidthsLen),
   segmentProfile |-> NewOnlineMeanArray(SegmentProfileLen)]

\* SessionAverager.begin() that resumes the earlier accumulation
SessionBegin_resume(s, t) ==
  [s EXCEPT !.active = TRUE, !.startTs = t, !.lastTs = t]

\* SessionAverager.begin() at time t
SessionBegin(s, t) ==
  [ResetFields EXCEPT !.active = TRUE, !.startTs = t, !.lastTs = t]

\* SessionAverager.add with the active test dropped
SessionAdd_noActiveTest(s, sample, t) ==
  [s EXCEPT
     !.lastTs = t,
     !.structure = OnlineMeanAdd(@, Coalesce(sample.structure, I(0))),
     !.balance = OnlineMeanAdd(@, Coalesce(sample.balance, I(0))),
     !.posture = OnlineMeanAdd(@, Coalesce(sample.posture, I(0))),
     !.velocity = OnlineMeanAdd(@, Coalesce(sample.velocity, I(0))),
     !.emotions = IF sample.hasEmotions
                  THEN [k \in EmotionSet |->
                          OnlineMeanAdd(@[k], Coalesce(sample.emotions[k], I(0)))]
                  ELSE @,
     !.regionWidths = OnlineMeanArrayAdd(@, sample.regionWidths),
     !.segmentProfile = OnlineMeanArrayAdd(@, sample.segmentProfile),
     !.samples = @ + 1]

\* SessionAverager.add(sample) at time t
SessionAdd(s, sample, t) ==
  IF ~s.active THEN s
  ELSE [s EXCEPT
     !.lastTs = t,
     !.structure = OnlineMeanAdd(@, Coalesce(sample.structure, I(0))),
     !.balance = OnlineMeanAdd(@, Coalesce(sample.balance, I(0))),
     !.posture = OnlineMeanAdd(@, Coalesce(sample.posture, I(0))),
     !.velocity = OnlineMeanAdd(@, Coalesce(sample.velocity, I(0))),
     !.emotions = IF sample.hasEmotions
                  THEN [k \in EmotionSet |->
                          OnlineMeanAdd(@[k], Coalesce(sample.emotions[k], I(0)))]
                  ELSE @,
     !.regionWidths = OnlineMeanArrayAdd(@, sample.regionWidths),
     !.segmentProfile = OnlineMeanArrayAdd(@, sample.segmentProfile),
     !.samples = @ + 1]

\* the object SessionAverager.end() returns at time t
SessionSnapshot(s, t) ==
  [durationMs |-> t - s.startTs,
   samples |-> s.samples,
   structure |-> s.structure.mean,
   balance |-> s.balance.mean,
   posture |-> s.posture.mean,
   velocity |-> s.velocity.mean,
   emotions |-> [k \in EmotionSet |-> s.emotions[k].mean],
   regionWidths |-> s.regionWidths.means,
   segmentProfile |-> s.segmentProfile.means]

\* SessionAverager.end() that clears the accumulator as reset() does
SessionEnd_resets(s) == ResetFields

\* SessionAverager.end() that forgets to deactivate
SessionEnd_staysActive(s) == s

\* the accumulator after SessionAverager.end()
SessionEnd(s) == [s EXCEPT !.active = FALSE]

(***************************************************************************)
(* State                                                                   *)
(***************************************************************************)
VARIABLES
  now,                 \* the clock read by millis() and performance.now()
  ebSession,           \* window.__ebSession
  out,                 \* what end() returned, if called since the last begin()
  hist,                \* the samples add() accepted since the last begin()
  phase,               \* "new", "begun" or "ended": the last lifecycle call
  preSession,          \* the accumulator before the last operation on it
  lastOp               \* the last operation executed

avgVars == <<ebSession, out, hist, phase, preSession>>

NoSnapshot == [none |-> TRUE]

(***************************************************************************)
(* Pipeline state                                                          *)
(***************************************************************************)
VARIABLES
  trackingStarted, poses,
  emotionSliders, regionSliders,
  movementVelocity, fastVel, slowVel,
  smoothedStructure, smoothedBalance, smoothedPostureLean, smoothedAvgY,
  prevKeypoints,        \* __prevKeypoints: part -> position; empty is null
  prevByPart,           \* __prevByPart: part -> position
  followPose, poseTx, poseTy, poseSeenAt,
  lastPoseEmitAt, lastEmitMs, lastEcho,
  blockIncomingUntil,   \* __blockIncomingUntil
  sadnessInMax,         \* TUNE.emotions.sadnessFromAvgY.inMax; Undef is null
  display,              \* window.EnergyBodiesDisplay: "absent", "ok" or "throws"
  ebSessionReady,       \* window.__ebSessionReady
  lastArg,              \* the argument of the last operation
  ticks, applies,       \* pose events processed, applySliders calls made
  ops,                  \* operations executed
  opLimit,              \* the number of operations a run may execute
  done,                 \* what the last operation computed, ran and emitted
  lastTransformAt,      \* when a pose last moved poseTx and poseTy; -1 is never
  frame,                \* where the last draw() put the scene, and when
  sessionExists,        \* window.__ebSession is not null
  ebTrackingReady,      \* window.__ebTrackingReady: sketch.js has been loaded
  setupRan,             \* setup() of sketch.js has run
  sessionStartQueued, trackingStartQueued,   \* the two flags of eb-init.js
  rafQueue,             \* the requestAnimationFrame callbacks pending: their `saved`
  prePrint              \* for each of them, the values before its onPrint

pipeVars ==
  <<trackingStarted, poses, emotionSliders, regionSliders,
    movementVelocity, fastVel, slowVel,
    smoothedStructure, smoothedBalance, smoothedPostureLean, smoothedAvgY,
    prevKeypoints, prevByPart, followPose, poseTx, poseTy, poseSeenAt,
    lastPoseEmitAt, lastEmitMs, lastEcho, blockIncomingUntil, sadnessInMax,
    display, ebSessionReady, lastArg, ticks, applies, ops,
    opLimit, done, lastTransformAt, frame,
    sessionExists, ebTrackingReady, setupRan,
    sessionStartQueued, trackingStartQueued, rafQueue, prePrint>>

(***************************************************************************)
(* Samples handed to SessionAverager.add by a direct caller                *)
(***************************************************************************)
Ints(seq) == [i \in 1..Len(seq) |-> I(seq[i])]

SampleA ==
  [structure |-> I(1), balance |-> I(2), posture |-> I(3), velocity |-> I(4),
   hasEmotions |-> TRUE, emotions |-> [k \in EmotionSet |-> I(5)],
   regionWidths |-> Ints(<<1, 2, 3, 4, 5, 6>>),
   segmentProfile |-> Ints(<<0, 1, 0>>)]

SampleB ==
  [structure |-> NaN, balance |-> Undef, posture |-> PInf, velocity |-> Q(1, 2),
   hasEmotions |-> TRUE,
   emotions |-> [k \in EmotionSet |->
                   IF k = "anxiety" THEN NaN
                   ELSE IF k = "sadness" THEN Undef ELSE I(1)],
   regionWidths |-> Ints(<<3, 2, 1, 0, 1, 2>>),
   segmentProfile |-> Ints(<<0, 1, 0>>)]

SampleC ==
  [structure |-> I(3), balance |-> I(0), posture |-> I(1), velocity |-> I(0),
   hasEmotions |-> FALSE, emotions |-> [k \in EmotionSet |-> Undef],
   regionWidths |-> Ints(<<2, 2, 2, 2, 2, 2>>),
   segmentProfile |-> <<>>]

SampleD ==
  [structure |-> I(2), balance |-> I(2), posture |-> NInf, velocity |-> I(1),
   hasEmotions |-> TRUE, emotions |-> [k \in EmotionSet |-> I(2)],
   regionWidths |-> Ints(<<4, 4, 4>>),
   segmentProfile |-> Ints(<<1, 1>>)]

SampleE ==
  [structure |-> I(5), balance |-> NaN, posture |-> I(0), velocity |-> Undef,
   hasEmotions |-> TRUE, emotions |-> [k \in EmotionSet |-> I(0)],
   regionWidths |-> <<NaN, I(4), I(1), I(1), I(1), I(1)>>,
   segmentProfile |-> <<I(0), NaN, I(2)>>]

Samples == {SampleA, SampleB, SampleC, SampleD, SampleE}

MaxAdds == 3
MaxAvgNow == 2

(***************************************************************************)
(* Properties of the accumulator                                           *)
(***************************************************************************)
ScalarFields == {"structure", "balance", "posture", "velocity"}

RECURSIVE SumSeq(_)
SumSeq(seq) == IF seq = <<>> THEN I(0) ELSE Add(Head(seq), SumSeq(Tail(seq)))

FiniteOnly(seq) == SelectSeq(seq, IsFinite)

ArithMean(seq) == IF seq = <<>> THEN I(0) ELSE Div(SumSeq(seq), I(Len(seq)))

\* the values a scalar field has been handed since begin()
ScalarReceived(f) == [i \in 1..Len(hist) |-> Coalesce(hist[i][f], I(0))]

EmotionReceived(k) ==
  LET withE == SelectSeq(hist, LAMBDA smp : smp.hasEmotions)
  IN  [i \in 1..Len(withE) |-> Coalesce(withE[i].emotions[k], I(0))]

\* C1: every scalar field's running mean (structure, balance, posture,
\* velocity, each emotion) is the arithmetic mean of the finite values the
\* field received since begin(), and its counter is the number of those
\* finite values: a non-finite value changes neither.
C1_RunningMeanIsArithmeticMean ==
  /\ \A f \in ScalarFields :
        /\ ebSession[f].mean = ArithMean(FiniteOnly(ScalarReceived(f)))
        /\ ebSession[f].n = Len(FiniteOnly(ScalarReceived(f)))
  /\ \A k \in EmotionSet :
        /\ ebSession.emotions[k].mean = ArithMean(FiniteOnly(EmotionReceived(k)))
        /\ ebSession.emotions[k].n = Len(FiniteOnly(EmotionReceived(k)))

\* a field that averaged two finite values to a non-integer and skipped a third
C1_Witness ==
  \E f \in ScalarFields :
     /\ ebSession[f].n = 2
     /\ Len(ScalarReceived(f)) = 3
     /\ ebSession[f].mean[2] > 1

AllZero(seq) == \A i \in DOMAIN seq : seq[i] = I(0)

\* C2: right after begin(), whatever the accumulator held, the sample count,
\* every mean, every vector-mean element and every counter is 0 and the
\* accumulator is active.
C2_BeginResets ==
  lastOp = "begin" =>
    /\ ebSession.active
    /\ ebSession.samples = 0
    /\ \A f \in ScalarFields : ebSession[f].mean = I(0) /\ ebSession[f].n = 0
    /\ \A k \in EmotionSet :
          ebSession.emotions[k].mean = I(0) /\ ebSession.emotions[k].n = 0
    /\ AllZero(ebSession.regionWidths.means) /\ ebSession.regionWidths.n = 0
    /\ AllZero(ebSession.segmentProfile.means) /\ ebSession.segmentProfile.n = 0

\* begin() on an active accumulator that holds samples
C2_Witness ==
  lastOp = "begin" /\ preSession.active /\ preSession.samples >= 2
    /\ preSession.structure.mean # I(0)

\* C3: add(sample) on an idle accumulator changes nothing of it.
C3_AddOnIdleIsNoOp ==
  (lastOp = "add" /\ ~preSession.active) => ebSession = preSession

\* add() on an accumulator that was ended with samples in it
C3_Witness ==
  lastOp = "add" /\ ~preSession.active /\ phase = "ended"
    /\ preSession.samples >= 1

\* the means and the sample count a snapshot holds are those of s
SnapshotOf(snap, s) ==
  /\ snap.samples = s.samples
  /\ \A f \in ScalarFields : snap[f] = s[f].mean
  /\ \A k \in EmotionSet : snap.emotions[k] = s.emotions[k].mean
  /\ snap.regionWidths = s.regionWidths.means
  /\ snap.segmentProfile = s.segmentProfile.means

\* C4: end() on an active accumulator returns the sample count and every
\* running mean it held and leaves it idle; until the next begin() it stays
\* idle and keeps exactly what the snapshot holds, whatever is added.
C4_EndSnapshotsAndDeactivates ==
  /\ (lastOp = "end" /\ preSession.active) =>
        SnapshotOf(out, preSession) /\ ~ebSession.active
  /\ phase = "ended" => ~ebSession.active /\ SnapshotOf(out, ebSession)

\* an add() after end() on an accumulator that had averaged two samples
C4_Witness ==
  phase = "ended" /\ lastOp = "add" /\ out.samples >= 2
    /\ out.structure # I(0)

(***************************************************************************)
(* Vector accumulators                                                     *)
(***************************************************************************)
VectorFields == {"regionWidths", "segmentProfile"}

InitialLen(f) == IF f = "regionWidths" THEN RegionWidthsLen ELSE SegmentProfileLen

\* the non-empty vectors field f has been handed since begin()
VectorReceived(f) ==
  LET withV == SelectSeq(hist, LAMBDA smp : Len(smp[f]) > 0)
  IN  [i \in 1..Len(withV) |-> withV[i][f]]

\* the length field f had established before its j-th vector
EstablishedLen(f, j) ==
  IF j = 1 THEN InitialLen(f) ELSE Len(VectorReceived(f)[j - 1])

\* the indices of the vectors that changed the established length
LengthChanges(f) ==
  {j \in 1..Len(VectorReceived(f)) :
     Len(VectorReceived(f)[j]) # EstablishedLen(f, j)}

Max(S) == CHOOSE x \in S : \A y \in S : y <= x

\* the values at index i of the vectors from the j-th onward
ElementsFrom(f, j, i) ==
  [m \in 1..(Len(VectorReceived(f)) - j + 1) |-> VectorReceived(f)[m + j - 1][i]]

\* C9: after a vector sample whose length differs from the established one,
\* each element's mean is the arithmetic mean of the values received from
\* that sample onward.
C9_LengthChangeStartsAfresh ==
  \A f \in VectorFields :
     LengthChanges(f) # {} =>
       LET j == Max(LengthChanges(f))
       IN  \A i \in DOMAIN ebSession[f].means :
              ebSession[f].means[i] = ArithMean(FiniteOnly(ElementsFrom(f, j, i)))

\* C10: after equal-length vector samples each element's mean is the
\* arithmetic mean of the finite values seen at that index.
C10_VectorElementMeans ==
  \A f \in VectorFields :
     (LengthChanges(f) = {} /\ Len(VectorReceived(f)) > 0) =>
        \A i \in DOMAIN ebSession[f].means :
           ebSession[f].means[i] = ArithMean(FiniteOnly(ElementsFrom(f, 1, i)))

\* the three region-width vectors of the worked example, in order
ExampleWidths ==
  <<Ints(<<1, 2, 3, 4, 5, 6>>), Ints(<<3, 2, 1, 0, 1, 2>>), Ints(<<2, 2, 2, 2, 2, 2>>)>>

\* an active accumulator that was handed exactly the example's vectors
ExampleReceived ==
  /\ ebSession.active
  /\ Len(hist) = 3
  /\ [i \in 1..3 |-> hist[i].regionWidths] = ExampleWidths

\* C11: an active accumulator handed the region-width vectors [1,2,3,4,5,6],
\* [3,2,1,0,1,2] and [2,2,2,2,2,2], in that order and nothing else, holds
\* the region-width means [2,2,2,2,8/3,10/3].
C11_ExampleMeans ==
  ExampleReceived =>
    ebSession.regionWidths.means = <<I(2), I(2), I(2), I(2), Q(8, 3), Q(10, 3)>>

\* C11 as stated: the same accumulator holds [2,2,2,2,3,10/3].
C11_ExampleMeansAsStated ==
  ExampleReceived =>
    ebSession.regionWidths.means = <<I(2), I(2), I(2), I(2), I(3), Q(10, 3)>>

\* the example's three vectors have been averaged
C11_Witness ==
  ExampleReceived /\ ebSession.regionWidths.n = 3
    /\ ebSession.regionWidths.means[6] = Q(10, 3)

(***************************************************************************)
(* The pose pipeline of sketch.js: helpers and tuning                      *)
(***************************************************************************)
\* p5 lerp(start, stop, amt)
lerp(start, stop, amt) == Add(Mul(amt, Sub(stop, start)), start)

\* p5 map(n, start1, stop1, start2, stop2)
map(n, start1, stop1, start2, stop2) ==
  Add(Mul(Div(Sub(n, start1), Sub(stop1, start1)), Sub(stop2, start2)), start2)

\* p5 constrain(n, low, high)
constrain(n, low, high) == MathMax(MathMin(n, high), low)

clamp01(x) == MathMax(I(0), MathMin(I(1), x))

RECURSIVE NewtonSqrt(_, _)
NewtonSqrt(n, x) ==
  LET y == (x + n \div x) \div 2
  IN  IF y >= x THEN x ELSE NewtonSqrt(n, y)

\* the integer square root of n >= 0
ISqrt(n) == IF n < 2 THEN n ELSE NewtonSqrt(n, n)

SqrtScale == 100

\* the square root of a finite a >= 0: exact when a is the square of a
\* rational (every distance of the poses below is), else rounded down to a
\* multiple of 1/SqrtScale
SqrtQ(a) ==
  LET rn == ISqrt(a[1])
      rd == ISqrt(a[2])
  IN  IF rn * rn = a[1] /\ rd * rd = a[2] THEN Q(rn, rd)
      ELSE Q(ISqrt((a[1] * SqrtScale * SqrtScale) \div a[2]), SqrtScale)

\* Math.hypot(dx, dy); p5 dist(x1, y1, x2, y2) is Hypot(x2 - x1, y2 - y1)
Hypot(dx, dy) ==
  IF ~IsFinite(dx) \/ ~IsFinite(dy)
  THEN (IF dx[2] = 0 /\ dx[1] # 0 THEN PInf
        ELSE IF dy[2] = 0 /\ dy[1] # 0 THEN PInf ELSE NaN)
  ELSE IF dy[1] = 0 THEN <<Abs(dx[1]), dx[2]>>
  ELSE IF dx[1] = 0 THEN <<Abs(dy[1]), dy[2]>>
  ELSE SqrtQ(Add(Mul(dx, dx), Mul(dy, dy)))

dist(x1, y1, x2, y2) == Hypot(Sub(x2, x1), Sub(y2, y1))

MathAbs(x) == IF x[2] >= 0 THEN <<Abs(x[1]), x[2]>> ELSE NaN

\* clamp01(map(Math.abs(Math.atan2(dy, dx)), 0, Math.PI / 6, 0, 1)): 1 when
\* the angle is at least 30 degrees from the positive x axis, 0 when it is 0;
\* strictly in between the value is irrational and is approximated by
\* (7/4)|dy|/dx, which no pose below reaches
LeanOf(dy, dx) ==
  IF ~IsFinite(dy) \/ ~IsFinite(dx) THEN NaN
  ELSE IF dx[1] <= 0 THEN (IF dx[1] = 0 /\ dy[1] = 0 THEN I(0) ELSE I(1))
  ELSE IF dy[1] = 0 THEN I(0)
  ELSE IF Le(Mul(dx, dx), Mul(I(3), Mul(dy, dy))) THEN I(1)
  ELSE clamp01(Mul(Q(7, 4), Div(MathAbs(dy), dx)))

TUNE ==
  [velocity |->
     [kpMinScore |-> Q(1, 2), vNormInMin |-> Q(15, 1000), vNormInMax |-> Q(2, 10),
      vBlend |-> Q(125, 1000), fastEMA |-> Q(8, 10), slowEMA |-> Q(1, 100),
      angerBurstMin |-> Q(2, 100), angerBurstMax |-> I(1)],
   emotions |->
     [blendPoseVsSlider |-> Q(30, 100),
      anxietyFromVel |-> [inMin |-> Q(3, 10), inMax |-> Q(15, 10), outMin |-> I(0), outMax |-> I(5)],
      calmFromBalance |-> [inMin |-> Q(2, 10), inMax |-> I(50), outMin |-> I(5), outMax |-> I(0)],
      sadnessFromAvgY |-> [inMin |-> I(0), outMin |-> I(0), outMax |-> I(5)],
      fearFromLean |-> [inMin |-> I(0), inMax |-> I(100), outMin |-> I(0), outMax |-> I(5)],
      joyFromStructure |-> [inMin |-> Q(25, 100), inMax |-> I(1), outMin |-> I(0), outMax |-> I(5)]],
   follow |->
     [enabledFreshMs |-> 300,
      lerp |-> [tx |-> Q(20, 100), ty |-> Q(20, 100)]],
   coupling |->
     [armsHands |-> [wristSpreadMin |-> I(2), wristSpreadMax |-> I(5), lerp |-> Q(12, 100)],
      spine |-> [swayRange |-> I(1), lerp |-> Q(20, 100)],
      head |-> [velMin |-> Q(35, 1000), velMax |-> Q(5, 100), lerp |-> Q(10, 100)],
      neck |-> [velMin |-> Q(5, 10000), velMax |-> Q(15, 1000), lerp |-> Q(18, 100)],
      chest |-> [velMin |-> Q(5, 100000), velMax |-> Q(10, 1000),
                 reachMin |-> Q(7, 10), reachMax |-> I(2), lerp |-> Q(20, 100)],
      abdomen |-> [velMin |-> Q(25, 1000), velMax |-> Q(325, 10000),
                   torsoMin |-> Q(120, 100), torsoMax |-> Q(140, 100), lerp |-> Q(10, 100)],
      legsFeet |-> [velMin |-> Q(1, 10000), velMax |-> Q(12, 1000),
                    ankleSpreadMin |-> Q(9, 10), ankleSpreadMax |-> I(3), lerp |-> Q(20, 100)]]]

POSE_EMIT_MS == 80
METRICS_EMIT_MS == 80
ECHO_MS == 250
RESET_INPUT_BLOCK_MS == 600
SAMPLE_MIN_SCORE == Q(25, 100)
BLEND == Q(35, 100)

\* video.size(640, 480); createCanvas(windowWidth, windowHeight) of a
\* 1600 x 900 window, which makes K = min(width, height) / 900 equal to 1
VideoWidth == 640
VideoHeight == 480
CanvasHeight == 900
SpineMaxWidth == 100

regionKeypoints ==
  [head |-> {"nose", "leftEye", "rightEye", "leftEar", "rightEar"},
   neck |-> {"leftShoulder", "rightShoulder"},
   chest |-> {"leftShoulder", "rightShoulder", "leftElbow", "rightElbow",
              "leftWrist", "rightWrist"},
   armsHands |-> {"leftWrist", "rightWrist", "leftElbow", "rightElbow"},
   abdomen |-> {"leftHip", "rightHip"},
   legsFeet |-> {"leftKnee", "rightKnee", "leftAnkle", "rightAnkle"}]

SliderRegions == RegionSet \cup {"spine"}

(***************************************************************************)
(* Detector input: a pose is its overall score and its keypoints, a        *)
(* function from the parts present to [x, y, score]                        *)
(***************************************************************************)
BasePos ==
  [nose |-> <<320, 120>>, leftEye |-> <<330, 110>>, rightEye |-> <<310, 110>>,
   leftEar |-> <<345, 115>>, rightEar |-> <<295, 115>>,
   leftShoulder |-> <<380, 200>>, rightShoulder |-> <<260, 200>>,
   leftElbow |-> <<380, 280>>, rightElbow |-> <<260, 280>>,
   leftWrist |-> <<380, 360>>, rightWrist |-> <<260, 360>>,
   leftHip |-> <<360, 400>>, rightHip |-> <<280, 400>>,
   leftKnee |-> <<360, 440>>, rightKnee |-> <<280, 440>>,
   leftAnkle |-> <<360, 470>>, rightAnkle |-> <<280, 470>>]

Parts == DOMAIN BasePos

\* arms raised: the left elbow and wrist moved by (60,-80) and (120,-160),
\* the right ones mirrored
ArmsPos ==
  [p \in Parts |->
     IF p = "leftElbow" THEN <<440, 200>>
     ELSE IF p = "rightElbow" THEN <<200, 200>>
     ELSE IF p = "leftWrist" THEN <<500, 200>>
     ELSE IF p = "rightWrist" THEN <<140, 200>>
     ELSE BasePos[p]]

ShiftPos(pos, dx, dy) == [p \in DOMAIN pos |-> <<pos[p][1] + dx, pos[p][2] + dy>>]

MkPose(score, pos, kscore) ==
  [score |-> score,
   kp |-> [p \in DOMAIN pos |->
             [x |-> I(pos[p][1]), y |-> I(pos[p][2]), score |-> kscore]]]

PoseStand == MkPose(Q(9, 10), BasePos, Q(9, 10))
PoseShift == MkPose(Q(9, 10), ShiftPos(BasePos, 160, 0), Q(9, 10))
PoseArms == MkPose(Q(8, 10), ArmsPos, Q(9, 10))
PoseFaint == MkPose(Q(25, 100), BasePos, Q(9, 10))

Poses == {PoseStand, PoseShift, PoseArms, PoseFaint}

\* the parts in `parts` reported with keypoint confidence `kscore`
WithScore(pose, parts, kscore) ==
  [pose EXCEPT !.kp = [p \in DOMAIN @ |->
                         IF p \in parts THEN [@[p] EXCEPT !.score = kscore] ELSE @[p]]]

\* standing with the head and the shoulders hidden: reported, below confidence
PoseObscured ==
  WithScore(PoseStand,
            {"nose", "leftEye", "rightEye", "leftEar", "rightEar",
             "leftShoulder", "rightShoulder"},
            Q(3, 10))

\* what a 'pose' event delivers: no result, or one result
Results == {<<>>} \cup {<<p>> : p \in Poses}

EmptyMap == [p \in {} |-> 0]

\* the state the stages of one handler thread through
Cur ==
  [now |-> now, ebSession |-> ebSession, hist |-> hist, out |-> out, phase |-> phase,
   trackingStarted |-> trackingStarted, poses |-> poses,
   emotionSliders |-> emotionSliders, regionSliders |-> regionSliders,
   movementVelocity |-> movementVelocity, fastVel |-> fastVel, slowVel |-> slowVel,
   smoothedStructure |-> smoothedStructure, smoothedBalance |-> smoothedBalance,
   smoothedPostureLean |-> smoothedPostureLean, smoothedAvgY |-> smoothedAvgY,
   prevKeypoints |-> prevKeypoints, prevByPart |-> prevByPart,
   followPose |-> followPose, poseTx |-> poseTx, poseTy |-> poseTy,
   poseSeenAt |-> poseSeenAt,
   lastPoseEmitAt |-> lastPoseEmitAt, lastEmitMs |-> lastEmitMs, lastEcho |-> lastEcho,
   blockIncomingUntil |-> blockIncomingUntil, sadnessInMax |-> sadnessInMax,
   display |-> display, threw |-> FALSE,
   ebSessionReady |-> ebSessionReady, sessionExists |-> sessionExists,
   ebTrackingReady |-> ebTrackingReady, setupRan |-> setupRan,
   sessionStartQueued |-> sessionStartQueued,
   trackingStartQueued |-> trackingStartQueued,
   rafQueue |-> rafQueue, prePrint |-> prePrint,
   lastTransformAt |-> lastTransformAt,
   velAvg |-> Undef, regionVel |-> EmptyMap, stages |-> <<>>, echoed |-> 0,
   sent |-> <<>>]

RECURSIVE SumSet(_, _)
SumSet(S, f) ==
  IF S = {} THEN I(0)
  ELSE LET x == CHOOSE x \in S : TRUE
       IN  Add(f[x], SumSet(S \ {x}, f))

\* the parts of a pose whose score is above TUNE.velocity.kpMinScore
Confident(pose) ==
  {p \in DOMAIN pose.kp : Lt(TUNE.velocity.kpMinScore, pose.kp[p].score)}

diag == Hypot(I(VideoWidth), I(VideoHeight))

\* the displacement measured from the frame's origin instead of the cache
MeanDisplacement_fromOrigin(pose, cache, matched) ==
  IF matched = {} THEN I(0)
  ELSE Div(SumSet(matched,
                  [p \in matched |->
                     Hypot(Div(pose.kp[p].x, diag), Div(pose.kp[p].y, diag))]),
           I(Cardinality(matched)))

\* the mean normalized displacement of the parts in `matched` between the
\* cached positions and the pose
MeanDisplacement(pose, cache, matched) ==
  IF matched = {} THEN I(0)
  ELSE Div(SumSet(matched,
                  [p \in matched |->
                     Hypot(Div(Sub(pose.kp[p].x, cache[p].x), diag),
                           Div(Sub(pose.kp[p].y, cache[p].y), diag))]),
           I(Cardinality(matched)))

MapRange(x, r) == constrain(map(x, r.inMin, r.inMax, r.outMin, r.outMax), I(0), I(5))

Has(pose, part) == part \in DOMAIN pose.kp

PosOf(pose, part) == [x |-> pose.kp[part].x, y |-> pose.kp[part].y]

\* a - b of two coordinates either of which may be missing (a?.y - b?.y)
OptSub(pose, a, b, axis) ==
  IF Has(pose, a) /\ Has(pose, b)
  THEN Sub(PosOf(pose, a)[axis], PosOf(pose, b)[axis])
  ELSE NaN

Half(a, b) == Div(Add(a, b), I(2))

\* lines 815-826
StructureOf(pose) ==
  IF Has(pose, "leftShoulder") /\ Has(pose, "rightShoulder")
     /\ Has(pose, "leftWrist") /\ Has(pose, "rightWrist")
  THEN LET Ls == PosOf(pose, "leftShoulder")
           Rs == PosOf(pose, "rightShoulder")
           Lw == PosOf(pose, "leftWrist")
           Rw == PosOf(pose, "rightWrist")
           span == dist(Ls.x, Ls.y, Rs.x, Rs.y)
           lw == Div(dist(Ls.x, Ls.y, Lw.x, Lw.y), span)
           rw == Div(dist(Rs.x, Rs.y, Rw.x, Rw.y), span)
       IN  clamp01(map(Mul(Add(lw, rw), Q(1, 2)), Q(7, 10), I(2), I(0), I(1)))
  ELSE I(0)

\* lines 835-843
LeanOfPose(pose) ==
  IF Has(pose, "leftShoulder") /\ Has(pose, "rightShoulder")
     /\ Has(pose, "leftHip") /\ Has(pose, "rightHip")
  THEN LET Ls == PosOf(pose, "leftShoulder")
           Rs == PosOf(pose, "rightShoulder")
           Lh == PosOf(pose, "leftHip")
           Rh == PosOf(pose, "rightHip")
       IN  LeanOf(Sub(Half(Lh.y, Rh.y), Half(Ls.y, Rs.y)),
                  Sub(Half(Lh.x, Rh.x), Half(Ls.x, Rs.x)))
  ELSE I(0)

\* updatePoseFactors, lines 786-809: the velocity of the confident keypoints
\* against __prevKeypoints, and its three smoothings
\* the stage `name` has been entered
Ran(st, name) == [st EXCEPT !.stages = Append(@, name)]

\* the velocity regionVelocity returned for `region`
Seen(st, region, v) ==
  [st EXCEPT !.regionVel = [r \in DOMAIN @ \cup {region} |-> IF r = region THEN v ELSE @[r]]]

updateVelocity(st, pose) ==
  LET V == TUNE.velocity
      kp == Confident(pose)
      velAvg == MeanDisplacement(pose, st.prevKeypoints, kp \cap DOMAIN st.prevKeypoints)
      vNorm == clamp01(map(velAvg, V.vNormInMin, V.vNormInMax, I(0), I(1)))
  IN  [st EXCEPT !.velAvg = velAvg,
                 !.stages = Append(@, "velocity"),
                 !.prevKeypoints = [p \in kp |-> PosOf(pose, p)],
                 !.movementVelocity = lerp(@, vNorm, V.vBlend),
                 !.fastVel = lerp(@, vNorm, V.fastEMA),
                 !.slowVel = lerp(@, vNorm, V.slowEMA)]

\* updatePoseFactors, lines 814-844
updatePosture(st, pose) ==
  LET shoulderDiff == MathAbs(OptSub(pose, "leftShoulder", "rightShoulder", "y"))
      hipDiff == MathAbs(OptSub(pose, "leftHip", "rightHip", "y"))
  IN  [st EXCEPT !.smoothedStructure = lerp(@, StructureOf(pose), Q(15, 100)),
                 !.smoothedBalance = lerp(@, Add(shoulderDiff, hipDiff), Q(15, 100)),
                 !.smoothedPostureLean = lerp(@, LeanOfPose(pose), Q(15, 100))]

\* the affect mapping that assigns the pose estimate instead of blending it
mapEmotions_assignsEstimate(st, pose) ==
  IF ~(Has(pose, "leftShoulder") /\ Has(pose, "rightShoulder"))
  THEN [st EXCEPT !.threw = TRUE]
  ELSE
    LET E == TUNE.emotions
    IN  [st EXCEPT
           !.stages = Append(@, "affect"),
           !.emotionSliders =
              [n \in EmotionSet |->
                 IF n = "joy" THEN MapRange(st.smoothedStructure, E.joyFromStructure)
                 ELSE IF n = "calm" THEN MapRange(st.smoothedBalance, E.calmFromBalance)
                 ELSE @[n]]]

\* updatePoseFactors, lines 811-812 and 846-883: the pose estimates blended
\* into the emotion sliders.  Line 847 reads .y of pose.leftShoulder and of
\* pose.rightShoulder: with either missing a TypeError leaves the handler
mapEmotions(st, pose) ==
  IF ~(Has(pose, "leftShoulder") /\ Has(pose, "rightShoulder"))
  THEN [st EXCEPT !.threw = TRUE]
  ELSE
    LET V == TUNE.velocity
        E == TUNE.emotions
        sad == E.sadnessFromAvgY
        burst == MathMax(I(0), Sub(st.fastVel, st.slowVel))
        avgY == Half(PosOf(pose, "leftShoulder").y, PosOf(pose, "rightShoulder").y)
        say == lerp(st.smoothedAvgY, avgY, Q(1, 10))
        inMax == IF st.sadnessInMax = Undef THEN I(CanvasHeight) ELSE st.sadnessInMax
        est == [anxiety |-> MapRange(st.movementVelocity, E.anxietyFromVel),
                calm |-> MapRange(st.smoothedBalance, E.calmFromBalance),
                sadness |-> constrain(map(say, sad.inMin, inMax, sad.outMin, sad.outMax),
                                      I(0), I(5)),
                fear |-> MapRange(st.smoothedPostureLean, E.fearFromLean),
                joy |-> MapRange(st.smoothedStructure, E.joyFromStructure),
                anger |-> Mul(clamp01(map(burst, V.angerBurstMin, V.angerBurstMax,
                                          I(0), I(1))), I(5))]
    IN  [st EXCEPT
           !.stages = Append(@, "affect"),
           !.smoothedAvgY = say,
           !.sadnessInMax = inMax,
           !.emotionSliders = [n \in EmotionSet |->
                                 lerp(st.emotionSliders[n], est[n], E.blendPoseVsSlider)]]

\* updatePoseFactors going on with an empty filtered set
updatePoseFactors_noEmptyTest(st, pose) ==
  mapEmotions(updatePosture(updateVelocity(st, pose), pose), pose)

updatePoseFactors(st, pose) ==
  IF Confident(pose) = {} THEN st
  ELSE mapEmotions(updatePosture(updateVelocity(st, pose), pose), pose)

\* regionVelocity: the mean displacement of the confident parts that have a
\* cached position, and the cache with every confident part refreshed
regionVelocity(pose, parts, cache) ==
  LET conf == parts \cap Confident(pose)
  IN  [v |-> MeanDisplacement(pose, cache, conf \cap DOMAIN cache),
       cache |-> [p \in DOMAIN cache \cup conf |->
                    IF p \in conf THEN PosOf(pose, p) ELSE cache[p]]]

Eps == Q(1, 1000000)

VelVal(v, c) == constrain(map(v, c.velMin, c.velMax, I(0), I(5)), I(0), I(5))

\* get(part) of coupleRegionsToPose: the parts are present and confident
Got(pose, parts) == parts \subseteq Confident(pose)

Shoulders == {"leftShoulder", "rightShoulder"}
Wrists == {"leftWrist", "rightWrist"}
Hips == {"leftHip", "rightHip"}
Ankles == {"leftAnkle", "rightAnkle"}

\* dist between two parts of the pose
PartDist(pose, a, b) ==
  dist(PosOf(pose, a).x, PosOf(pose, a).y, PosOf(pose, b).x, PosOf(pose, b).y)

\* the midpoint of two parts on one axis
Mid(pose, a, b, axis) == Half(PosOf(pose, a)[axis], PosOf(pose, b)[axis])

\* one region's slider moved towards val, the cache as regionVelocity left it
Coupled(st, region, val, amt, cache) ==
  [st EXCEPT !.prevByPart = cache,
             !.regionSliders[region] = lerp(@, val, amt)]

coupleHead(st, pose) ==
  LET C == TUNE.coupling.head
      rv == regionVelocity(pose, regionKeypoints.head, st.prevByPart)
  IN  Coupled(Seen(st, "head", rv.v), "head", VelVal(rv.v, C), C.lerp, rv.cache)

coupleNeck(st, pose) ==
  LET C == TUNE.coupling.neck
      rv == regionVelocity(pose, regionKeypoints.neck, st.prevByPart)
  IN  Coupled(Seen(st, "neck", rv.v), "neck", VelVal(rv.v, C), C.lerp, rv.cache)

coupleArmsHands(st, pose) ==
  IF ~Got(pose, Wrists \cup Shoulders) THEN st
  ELSE
    LET C == TUNE.coupling
        span == PartDist(pose, "leftShoulder", "rightShoulder")
        wristSpread == Div(PartDist(pose, "leftWrist", "rightWrist"), MathMax(span, Eps))
        base == constrain(map(wristSpread, C.armsHands.wristSpreadMin,
                              C.armsHands.wristSpreadMax, I(0), I(5)), I(0), I(5))
        rv == regionVelocity(pose, regionKeypoints.armsHands, st.prevByPart)
        boost == Mul(constrain(map(rv.v, C.head.velMin, C.chest.velMax, I(0), I(5)),
                               I(0), I(5)), Q(1, 2))
    IN  Coupled(Seen(st, "armsHands", rv.v), "armsHands", constrain(Add(base, boost), I(0), I(5)),
                C.armsHands.lerp, rv.cache)

coupleChest(st, pose) ==
  IF ~Got(pose, Shoulders) THEN st
  ELSE
    LET C == TUNE.coupling.chest
        span == PartDist(pose, "leftShoulder", "rightShoulder")
        openness == IF Got(pose, Wrists)
                    THEN Mul(Add(Div(PartDist(pose, "leftShoulder", "leftWrist"), span),
                                 Div(PartDist(pose, "rightShoulder", "rightWrist"), span)),
                             Q(1, 2))
                    ELSE I(0)
        openVal == constrain(map(openness, C.reachMin, C.reachMax, I(0), I(5)), I(0), I(5))
        rv == regionVelocity(pose, regionKeypoints.chest, st.prevByPart)
    IN  Coupled(Seen(st, "chest", rv.v), "chest",
                constrain(Add(Mul(Q(6, 10), openVal), Mul(Q(4, 10), VelVal(rv.v, C))),
                          I(0), I(5)),
                C.lerp, rv.cache)

coupleAbdomen(st, pose) ==
  IF ~Got(pose, Shoulders \cup Hips) THEN st
  ELSE
    LET C == TUNE.coupling.abdomen
        span == PartDist(pose, "leftShoulder", "rightShoulder")
        torsoLen == Div(dist(Mid(pose, "leftShoulder", "rightShoulder", "x"),
                             Mid(pose, "leftShoulder", "rightShoulder", "y"),
                             Mid(pose, "leftHip", "rightHip", "x"),
                             Mid(pose, "leftHip", "rightHip", "y")),
                        MathMax(span, Eps))
        torsoVal == Sub(I(5), constrain(map(torsoLen, C.torsoMin, C.torsoMax, I(0), I(5)),
                                        I(0), I(5)))
        rv == regionVelocity(pose, regionKeypoints.abdomen, st.prevByPart)
    IN  Coupled(Seen(st, "abdomen", rv.v), "abdomen",
                constrain(Add(Mul(Q(6, 10), torsoVal), Mul(Q(4, 10), VelVal(rv.v, C))),
                          I(0), I(5)),
                C.lerp, rv.cache)

coupleLegsFeet(st, pose) ==
  IF ~Got(pose, Ankles \cup Hips) THEN st
  ELSE
    LET C == TUNE.coupling.legsFeet
        hipSpan == PartDist(pose, "leftHip", "rightHip")
        stepW == Div(PartDist(pose, "leftAnkle", "rightAnkle"), MathMax(hipSpan, Eps))
        spreadVal == constrain(map(stepW, C.ankleSpreadMin, C.ankleSpreadMax, I(0), I(5)),
                               I(0), I(5))
        rv == regionVelocity(pose, regionKeypoints.legsFeet, st.prevByPart)
    IN  Coupled(Seen(st, "legsFeet", rv.v), "legsFeet",
                constrain(Add(Mul(Q(1, 2), spreadVal), Mul(Q(1, 2), VelVal(rv.v, C))),
                          I(0), I(5)),
                C.lerp, rv.cache)

\* the spine value is stored unconstrained
coupleSpine(st, pose) ==
  IF ~Got(pose, Shoulders) THEN st
  ELSE
    LET C == TUNE.coupling.spine
        span == PartDist(pose, "leftShoulder", "rightShoulder")
        spineSway == Div(Sub(Mid(pose, "leftShoulder", "rightShoulder", "x"),
                             Div(I(VideoWidth), I(2))),
                         MathMax(span, Eps))
        spineVal == map(spineSway, Neg(C.swayRange), C.swayRange, I(0), I(SpineMaxWidth))
    IN  Coupled(st, "spine", spineVal, C.lerp, st.prevByPart)

coupleRegionsToPose(st, pose) ==
  coupleSpine(
    coupleLegsFeet(
      coupleAbdomen(
        coupleChest(
          coupleArmsHands(
            coupleNeck(
              coupleHead(Ran(st, "coupling"), pose), pose), pose), pose), pose), pose), pose)

TorsoParts == {"leftShoulder", "rightShoulder", "leftHip", "rightHip"}

\* (ls + rs + lh + rh) / 4 on one axis
TorsoCentre(pose, axis) ==
  Div(Add(Add(PosOf(pose, "leftShoulder")[axis], PosOf(pose, "rightShoulder")[axis]),
          Add(PosOf(pose, "leftHip")[axis], PosOf(pose, "rightHip")[axis])),
      I(4))

\* poseRot and poseSc are written here too; nothing modelled reads them
updatePoseTransform(st, pose) ==
  IF ~(TorsoParts \subseteq Confident(pose)) THEN Ran(st, "transform")
  ELSE LET L == TUNE.follow.lerp
       IN  [st EXCEPT !.stages = Append(@, "transform"),
                      !.poseTx = lerp(st.poseTx, TorsoCentre(pose, "x"), L.tx),
                      !.poseTy = lerp(st.poseTy, TorsoCentre(pose, "y"), L.ty),
                      !.poseSeenAt = st.now,
                      !.lastTransformAt = st.now]

updatePoseAnchor(st, pose) ==
  IF ~(TorsoParts \subseteq Confident(pose)) THEN Ran(st, "anchor")
  ELSE [st EXCEPT !.stages = Append(@, "anchor"),
                  !.poseTx = lerp(st.poseTx, TorsoCentre(pose, "x"), Q(25, 100)),
                  !.poseTy = lerp(st.poseTy, TorsoCentre(pose, "y"), Q(25, 100)),
                  !.poseSeenAt = st.now,
                  !.lastTransformAt = st.now]

\* maybeEchoState echoing on every call
maybeEchoState_noThrottle(st) ==
  IF st.display = "absent" THEN Ran(st, "echo")
  ELSE [st EXCEPT !.stages = Append(@, "echo"), !.lastEcho = st.now,
                  !.sent = Append(@, "echo"), !.echoed = @ + 1,
                  !.threw = (st.display = "throws")]

\* EnergyBodiesDisplay.echo is called last and nothing catches what it throws
maybeEchoState(st) ==
  IF st.display = "absent" THEN Ran(st, "echo")
  ELSE IF st.now - st.lastEcho < ECHO_MS THEN Ran(st, "echo")
  ELSE IF st.display = "throws"
       THEN [st EXCEPT !.stages = Append(@, "echo"), !.lastEcho = st.now,
                       !.sent = Append(@, "echo"), !.threw = TRUE]
  ELSE [st EXCEPT !.stages = Append(@, "echo"), !.lastEcho = st.now,
                  !.sent = Append(@, "echo"), !.echoed = @ + 1]

\* Number(v || 0)
NumberOr0(v) == IF IsNaN(v) \/ v = Undef THEN I(0) ELSE v

segmentProfile == <<I(0), I(1), I(0)>>

buildSampleForThisFrame(st) ==
  [structure |-> st.smoothedStructure,
   balance |-> st.smoothedBalance,
   posture |-> st.smoothedPostureLean,
   velocity |-> st.movementVelocity,
   hasEmotions |-> TRUE,
   emotions |-> [n \in EmotionSet |-> NumberOr0(st.emotionSliders[n])],
   regionWidths |-> [i \in 1..Len(regionNames) |-> NumberOr0(st.regionSliders[regionNames[i]])],
   segmentProfile |-> segmentProfile]

\* a variant of the sampling gate without the score test
SampleGate_noScoreTest(st) ==
  st.trackingStarted /\ st.ebSession.active /\ st.poses # <<>>

\* lines 1099-1101: whether this frame is added to the session
SampleGate(st) ==
  /\ st.trackingStarted
  /\ st.ebSession.active
  /\ st.poses # <<>>
  /\ Lt(SAMPLE_MIN_SCORE, st.poses[1].score)

\* emitPoseMetrics, lines 1099-1104
sessionSample(st) ==
  IF SampleGate(st)
  THEN [st EXCEPT
          !.stages = Append(@, "sampling"),
          !.ebSession = SessionAdd(@, buildSampleForThisFrame(st), st.now),
          !.hist = Append(@, buildSampleForThisFrame(st))]
  ELSE Ran(st, "sampling")

\* the messages of this operation after EnergyBodiesDisplay.pose was called
\* on `channel`, which takes a display
Posted(st, channel) ==
  IF st.display = "absent" THEN st.sent ELSE Append(st.sent, channel)

\* emitPoseMetrics, lines 1106-1108: the metrics message at most every 80 ms
metricsThrottle(st) ==
  IF st.now - st.lastEmitMs < METRICS_EMIT_MS THEN Ran(st, "metrics")
  ELSE [st EXCEPT !.stages = Append(@, "metrics"), !.lastEmitMs = st.now,
                  !.sent = Posted(st, "metrics"),
                  !.threw = (st.display = "throws")]

\* not reached when maybeEchoState threw
emitPoseMetrics(st) ==
  IF st.threw THEN st ELSE metricsThrottle(sessionSample(st))

\* lines 365-369: the keypoints message at most every 80 ms
poseEmitThrottle(st) ==
  IF st.threw THEN st
  ELSE IF st.now - st.lastPoseEmitAt >= POSE_EMIT_MS
  THEN [st EXCEPT !.stages = Append(@, "poseEmit"), !.lastPoseEmitAt = st.now,
                  !.sent = Posted(st, "keypoints"),
                  !.threw = (st.display = "throws")]
  ELSE Ran(st, "poseEmit")

\* lines 357-369, which a TypeError in updatePoseFactors skips
afterPoseFactors(st, pose) ==
  IF st.threw THEN st
  ELSE poseEmitThrottle(
         emitPoseMetrics(
           maybeEchoState(
             updatePoseAnchor(
               coupleRegionsToPose(
                 updatePoseTransform(st, pose), pose), pose))))

\* the 'pose' handler without the tracking test
PoseHandler_noTrackingTest(st, results) ==
  IF results = <<>> THEN [st EXCEPT !.poses = results]
  ELSE afterPoseFactors(updatePoseFactors([st EXCEPT !.poses = results], results[1]),
                        results[1])

\* the 'pose' event handler, lines 350-369
PoseHandler(st, results) ==
  IF ~st.trackingStarted THEN st
  ELSE IF results = <<>> THEN [st EXCEPT !.poses = results]
  ELSE afterPoseFactors(updatePoseFactors([st EXCEPT !.poses = results], results[1]),
                        results[1])

\* Number(v) || 0 of a value an external caller sends
NumberOrZero(v) == IF IsNaN(v) \/ v = Undef THEN I(0) ELSE v

\* applySliders without the cooldown test
applySliders_noCooldown(st, emotion, region, opts) ==
  maybeEchoState(
    [st EXCEPT
       !.emotionSliders =
          [k \in EmotionSet |->
             IF k \in DOMAIN emotion
             THEN lerp(st.emotionSliders[k], NumberOrZero(emotion[k]), BLEND)
             ELSE st.emotionSliders[k]],
       !.regionSliders =
          [k \in SliderRegions |->
             IF k \in DOMAIN region
             THEN lerp(st.regionSliders[k], NumberOrZero(region[k]), BLEND)
             ELSE st.regionSliders[k]]])

\* applySliders that stores the supplied value instead of blending
applySliders_overwrite(st, emotion, region, opts) ==
  IF ~opts.force /\ st.now < st.blockIncomingUntil THEN st
  ELSE maybeEchoState(
    [st EXCEPT
       !.emotionSliders =
          [k \in EmotionSet |->
             IF k \in DOMAIN emotion THEN NumberOrZero(emotion[k])
             ELSE st.emotionSliders[k]],
       !.regionSliders =
          [k \in SliderRegions |->
             IF k \in DOMAIN region THEN NumberOrZero(region[k])
             ELSE st.regionSliders[k]]])

\* applySliders whose cooldown test ignores the force option
applySliders_ignoresForce(st, emotion, region, opts) ==
  IF st.now < st.blockIncomingUntil THEN st
  ELSE applySliders_noCooldown(st, emotion, region, opts)

\* applySliders(emotion, region, opts); keys that name no slider are skipped
applySliders(st, emotion, region, opts) ==
  IF ~opts.force /\ st.now < st.blockIncomingUntil THEN st
  ELSE maybeEchoState(
    [st EXCEPT
       !.emotionSliders =
          [k \in EmotionSet |->
             IF k \in DOMAIN emotion
             THEN lerp(st.emotionSliders[k], NumberOrZero(emotion[k]), BLEND)
             ELSE st.emotionSliders[k]],
       !.regionSliders =
          [k \in SliderRegions |->
             IF k \in DOMAIN region
             THEN lerp(st.regionSliders[k], NumberOrZero(region[k]), BLEND)
             ELSE st.regionSliders[k]]])

\* startTrackingImpl
startTracking(st) ==
  IF st.trackingStarted THEN st
  ELSE LET s0 == [st EXCEPT !.trackingStarted = TRUE]
       IN  IF st.sessionExists /\ st.ebSessionReady /\ ~st.ebSession.active
           THEN [s0 EXCEPT !.ebSession = SessionBegin(st.ebSession, st.now),
                           !.hist = <<>>, !.out = NoSnapshot, !.phase = "begun"]
           ELSE s0

\* stopTracking: tracking off, the detector results dropped
stopTracking(st) ==
  IF ~st.trackingStarted THEN st
  ELSE [st EXCEPT !.trackingStarted = FALSE, !.poses = <<>>]

ZeroSliders(names) == [n \in names |-> I(0)]

\* resetAll that leaves the velocity caches alone
resetAll_keepsCaches(st, opts) ==
  LET s0 == IF opts.stopTrackingNow THEN stopTracking(st) ELSE st
      s1 == [s0 EXCEPT
               !.emotionSliders = ZeroSliders(EmotionSet),
               !.regionSliders = ZeroSliders(SliderRegions),
               !.movementVelocity = I(0), !.fastVel = I(0), !.slowVel = I(0),
               !.smoothedStructure = I(0), !.smoothedBalance = I(0),
               !.smoothedPostureLean = I(0), !.smoothedAvgY = I(0),
               !.followPose = FALSE,
               !.poseTx = Div(I(VideoWidth), I(2)),
               !.poseTy = Div(I(VideoHeight), I(2)),
               !.poseSeenAt = st.now,
               !.blockIncomingUntil = st.now + RESET_INPUT_BLOCK_MS]
  IN  IF opts.echo THEN maybeEchoState(s1) ELSE s1

\* resetAll({ echo, resetPoseCaches, stopTrackingNow })
resetAll(st, opts) ==
  LET s0 == IF opts.stopTrackingNow THEN stopTracking(st) ELSE st
      s1 == [s0 EXCEPT
               !.emotionSliders = ZeroSliders(EmotionSet),
               !.regionSliders = ZeroSliders(SliderRegions),
               !.movementVelocity = I(0), !.fastVel = I(0), !.slowVel = I(0),
               !.smoothedStructure = I(0), !.smoothedBalance = I(0),
               !.smoothedPostureLean = I(0), !.smoothedAvgY = I(0),
               !.followPose = FALSE,
               !.poseTx = Div(I(VideoWidth), I(2)),
               !.poseTy = Div(I(VideoHeight), I(2)),
               !.poseSeenAt = st.now]
      s2 == IF opts.resetPoseCaches
            THEN [s1 EXCEPT !.prevKeypoints = EmptyMap, !.prevByPart = EmptyMap,
                            !.poses = <<>>]
            ELSE s1
      s3 == [s2 EXCEPT !.blockIncomingUntil = st.now + RESET_INPUT_BLOCK_MS]
  IN  IF opts.echo THEN maybeEchoState(s3) ELSE s3

(***************************************************************************)
(* Print flow                                                              *)
(***************************************************************************)
\* `saved` of onPrintAverageThenSnapshot, lines 1410-1418
SavedState(st) ==
  [emotions |-> [i \in 1..Len(emotionNames) |-> st.emotionSliders[emotionNames[i]]],
   regions |-> [i \in 1..Len(regionNames) |-> st.regionSliders[regionNames[i]]],
   spine |-> st.regionSliders["spine"],
   structure |-> st.smoothedStructure,
   balance |-> st.smoothedBalance,
   posture |-> st.smoothedPostureLean,
   velocity |-> st.movementVelocity]

\* the position of a name in a list of names
IndexOf(names, n) == CHOOSE i \in 1..Len(names) : names[i] = n

\* arr?.[i] ?? 0
AtOr0(arr, i) == IF i \in 1..Len(arr) THEN Coalesce(arr[i], I(0)) ELSE I(0)

\* lines 1421-1435: the averages put in place of the live values
applyAverages(st, avg) ==
  [st EXCEPT
     !.emotionSliders = [n \in EmotionSet |-> Coalesce(avg.emotions[n], I(0))],
     !.regionSliders = [r \in SliderRegions |->
                          IF r = "spine" THEN I(0)
                          ELSE AtOr0(avg.regionWidths, IndexOf(regionNames, r))],
     !.smoothedStructure = Coalesce(avg.structure, I(0)),
     !.smoothedBalance = Coalesce(avg.balance, I(0)),
     !.smoothedPostureLean = Coalesce(avg.posture, I(0)),
     !.movementVelocity = Coalesce(avg.velocity, I(0))]

\* what the live values were when onPrint was called
LiveValues(st) ==
  [emotionSliders |-> st.emotionSliders, regionSliders |-> st.regionSliders,
   smoothedStructure |-> st.smoothedStructure, smoothedBalance |-> st.smoothedBalance,
   smoothedPostureLean |-> st.smoothedPostureLean,
   movementVelocity |-> st.movementVelocity]

\* onPrintAverageThenSnapshot, lines 1395-1437: without an active session or
\* without a sample the current canvas is printed; otherwise the session is
\* ended, the averages are applied and the capture is left to the next frame
onPrintAverageThenSnapshot(st) ==
  IF ~(st.sessionExists /\ st.ebSession.active) THEN Ran(st, "fallback")
  ELSE IF st.ebSession.samples = 0
  THEN Ran([st EXCEPT !.out = SessionSnapshot(st.ebSession, st.now),
                      !.ebSession = SessionEnd(@), !.phase = "ended"], "fallback")
  ELSE [applyAverages(st, SessionSnapshot(st.ebSession, st.now)) EXCEPT
          !.out = SessionSnapshot(st.ebSession, st.now),
          !.ebSession = SessionEnd(@), !.phase = "ended",
          !.rafQueue = Append(@, SavedState(st)),
          !.prePrint = Append(@, LiveValues(st))]

\* the callback that leaves the spine at the value the print gave it
printFrame_keepsSpine(st) ==
  LET saved == Head(st.rafQueue)
  IN  [st EXCEPT
         !.emotionSliders = [n \in EmotionSet |-> saved.emotions[IndexOf(emotionNames, n)]],
         !.regionSliders = [r \in SliderRegions |->
                              IF r = "spine" THEN @[r]
                              ELSE saved.regions[IndexOf(regionNames, r)]],
         !.smoothedStructure = saved.structure,
         !.smoothedBalance = saved.balance,
         !.smoothedPostureLean = saved.posture,
         !.movementVelocity = saved.velocity,
         !.rafQueue = Tail(@), !.prePrint = Tail(@)]

\* the requestAnimationFrame callback, lines 1438-1455: capture, then restore
printFrame(st) ==
  LET saved == Head(st.rafQueue)
  IN  [st EXCEPT
         !.emotionSliders = [n \in EmotionSet |-> saved.emotions[IndexOf(emotionNames, n)]],
         !.regionSliders = [r \in SliderRegions |->
                              IF r = "spine" THEN saved.spine
                              ELSE saved.regions[IndexOf(regionNames, r)]],
         !.smoothedStructure = saved.structure,
         !.smoothedBalance = saved.balance,
         !.smoothedPostureLean = saved.posture,
         !.movementVelocity = saved.velocity,
         !.rafQueue = Tail(@), !.prePrint = Tail(@)]

(***************************************************************************)
(* eb-init.js: the window API before sketch.js is ready                    *)
(***************************************************************************)
\* __ebSession.begin() through the window API
sessionBegun(st) ==
  [st EXCEPT !.stages = Append(@, "begin"),
             !.ebSession = SessionBegin(@, st.now),
             !.hist = <<>>, !.out = NoSnapshot, !.phase = "begun"]

\* window.beginSession of eb-init.js, lines 22-39
initBeginSession(st) ==
  IF st.sessionExists /\ st.ebSessionReady THEN sessionBegun(st)
  ELSE [st EXCEPT !.sessionStartQueued = TRUE]

\* window.beginSession of sketch.js, lines 253-258, which creates the
\* session it does not find
sketchBeginSession(st) == sessionBegun([st EXCEPT !.sessionExists = TRUE])

\* window.beginSession(): sketch.js, once loaded, has replaced the function
\* eb-init.js installed
beginSession(st) ==
  IF st.ebTrackingReady THEN sketchBeginSession(st) ELSE initBeginSession(st)

\* window.startTracking of eb-init.js, lines 63-75; __ebStartTrackingImpl
\* is registered before the ready flag is set (sketch.js:773-775)
windowStartTracking(st) ==
  IF st.ebTrackingReady THEN Ran(startTracking(st), "startTracking")
  ELSE [st EXCEPT !.trackingStartQueued = TRUE]

\* __ebProcessQueued, lines 109-113
processQueuedSession(st) ==
  IF st.sessionStartQueued /\ st.sessionExists /\ st.ebSessionReady
  THEN [beginSession(st) EXCEPT !.sessionStartQueued = FALSE]
  ELSE st

\* __ebProcessQueued, lines 116-120
processQueuedTracking(st) ==
  IF st.trackingStartQueued /\ st.ebTrackingReady
  THEN [windowStartTracking(st) EXCEPT !.trackingStartQueued = FALSE]
  ELSE st

\* window.__ebProcessQueued(), lines 105-121
ebProcessQueued(st) == processQueuedTracking(processQueuedSession(st))

\* setup() of sketch.js, line 296: a new accumulator takes the place of
\* whatever window.__ebSession held
setup(st) ==
  [st EXCEPT !.setupRan = TRUE, !.sessionExists = TRUE,
             !.ebSession = ResetFields,
             !.hist = <<>>, !.out = NoSnapshot, !.phase = "new"]

(***************************************************************************)
(* Inputs and bounds of the pipeline                                       *)
(***************************************************************************)
MaxTicks == 2
MaxApplies == 1
MaxOps == 3
MaxNow == 600
TimeSteps == {300}

\* what external callers send to applySliders: in range, with the spine, and
\* out of range with keys that name no slider
ApplyInputs ==
  {[emotion |-> [anxiety |-> I(5)], region |-> EmptyMap],
   [emotion |-> [joy |-> I(2), calm |-> Q(7, 2)], region |-> [head |-> I(3), spine |-> I(50)]],
   [emotion |-> [fear |-> I(100), bogus |-> I(3)], region |-> [chest |-> I(-2), tail |-> I(1)]]}

DefaultResetOpts == [echo |-> TRUE, resetPoseCaches |-> TRUE, stopTrackingNow |-> TRUE]

ResetOpts ==
  {DefaultResetOpts,
   [DefaultResetOpts EXCEPT !.echo = FALSE],
   [DefaultResetOpts EXCEPT !.resetPoseCaches = FALSE],
   [DefaultResetOpts EXCEPT !.stopTrackingNow = FALSE]}

NoArg == [none |-> TRUE]

\* the state an operation leaves behind
Install(f, op, arg) ==
  /\ ops' = ops + 1
  /\ ebSession' = f.ebSession
  /\ hist' = f.hist
  /\ out' = f.out
  /\ phase' = f.phase
  /\ preSession' = ebSession
  /\ trackingStarted' = f.trackingStarted
  /\ poses' = f.poses
  /\ emotionSliders' = f.emotionSliders
  /\ regionSliders' = f.regionSliders
  /\ movementVelocity' = f.movementVelocity
  /\ fastVel' = f.fastVel
  /\ slowVel' = f.slowVel
  /\ smoothedStructure' = f.smoothedStructure
  /\ smoothedBalance' = f.smoothedBalance
  /\ smoothedPostureLean' = f.smoothedPostureLean
  /\ smoothedAvgY' = f.smoothedAvgY
  /\ prevKeypoints' = f.prevKeypoints
  /\ prevByPart' = f.prevByPart
  /\ followPose' = f.followPose
  /\ poseTx' = f.poseTx
  /\ poseTy' = f.poseTy
  /\ poseSeenAt' = f.poseSeenAt
  /\ lastPoseEmitAt' = f.lastPoseEmitAt
  /\ lastEmitMs' = f.lastEmitMs
  /\ lastEcho' = f.lastEcho
  /\ blockIncomingUntil' = f.blockIncomingUntil
  /\ sadnessInMax' = f.sadnessInMax
  /\ lastOp' = op
  /\ lastArg' = arg
  /\ lastTransformAt' = f.lastTransformAt
  /\ done' = [velAvg |-> f.velAvg, regionVel |-> f.regionVel,
              stages |-> f.stages, echoed |-> f.echoed, sent |-> f.sent,
              threw |-> f.threw]
  /\ ebSessionReady' = f.ebSessionReady
  /\ sessionExists' = f.sessionExists
  /\ ebTrackingReady' = f.ebTrackingReady
  /\ setupRan' = f.setupRan
  /\ sessionStartQueued' = f.sessionStartQueued
  /\ trackingStartQueued' = f.trackingStartQueued
  /\ rafQueue' = f.rafQueue
  /\ prePrint' = f.prePrint
  /\ UNCHANGED <<now, display, opLimit, frame>>

(***************************************************************************)
(* Operations of the pipeline                                              *)
(***************************************************************************)
\* time passes
Advance(dt) ==
  /\ now + dt <= MaxNow
  /\ now' = now + dt
  /\ UNCHANGED <<ebSession, out, hist, phase, preSession, lastOp, lastArg,
                 trackingStarted, poses, emotionSliders, regionSliders,
                 movementVelocity, fastVel, slowVel,
                 smoothedStructure, smoothedBalance, smoothedPostureLean, smoothedAvgY,
                 prevKeypoints, prevByPart, followPose, poseTx, poseTy, poseSeenAt,
                 lastPoseEmitAt, lastEmitMs, lastEcho, blockIncomingUntil, sadnessInMax,
                 display, ebSessionReady, ticks, applies, ops,
                 sessionExists, ebTrackingReady, setupRan, sessionStartQueued,
                 trackingStartQueued, rafQueue, prePrint,
                 opLimit, done, lastTransformAt, frame>>

\* window.startTracking()
StartTracking ==
  /\ ops < opLimit
  /\ \E f \in {startTracking(Cur)} : Install(f, "startTracking", NoArg)
  /\ UNCHANGED <<ticks, applies>>

\* window.stopTracking()
StopTracking ==
  /\ ops < opLimit
  /\ \E f \in {stopTracking(Cur)} : Install(f, "stopTracking", NoArg)
  /\ UNCHANGED <<ticks, applies>>

\* the detector delivers results
PoseEvent(results) ==
  /\ ops < opLimit
  /\ trackingStarted => ticks < MaxTicks
  /\ \E f \in {PoseHandler(Cur, results)} : Install(f, "pose", NoArg)
  /\ ticks' = IF trackingStarted THEN ticks + 1 ELSE ticks
  /\ UNCHANGED applies

\* window.applySliders(emotion, region, { force })
ApplySliders(in, force) ==
  /\ ops < opLimit
  /\ applies < MaxApplies
  /\ \E f \in {applySliders(Cur, in.emotion, in.region, [force |-> force])} :
        Install(f, "applySliders",
                [emotion |-> in.emotion, region |-> in.region, force |-> force])
  /\ applies' = applies + 1
  /\ UNCHANGED ticks

\* window.resetAll(opts)
ResetAll(opts) ==
  /\ ops < opLimit
  /\ \E f \in {resetAll(Cur, opts)} : Install(f, "resetAll", opts)
  /\ UNCHANGED <<ticks, applies>>

\* window.beginSession()
BeginSession ==
  /\ ops < opLimit
  /\ \E f \in {[Cur EXCEPT !.ebSession = SessionBegin(ebSession, now),
                              !.hist = <<>>, !.out = NoSnapshot, !.phase = "begun"]} :
        Install(f, "beginSession", NoArg)
  /\ UNCHANGED <<ticks, applies>>

\* window.endSession()
EndSession ==
  /\ ops < opLimit
  /\ \E f \in {IF ebSessionReady /\ ebSession.active
                 THEN [Cur EXCEPT !.out = SessionSnapshot(ebSession, now),
                                  !.ebSession = SessionEnd(ebSession),
                                  !.phase = "ended"]
                 ELSE Cur} :
        Install(f, "endSession", NoArg)
  /\ UNCHANGED <<ticks, applies>>

\* the 'Follow Pose' button
ToggleFollow ==
  /\ ops < opLimit
  /\ \E f \in {[Cur EXCEPT !.followPose = ~followPose]} :
        Install(f, "toggleFollow", NoArg)
  /\ UNCHANGED <<ticks, applies>>

\* nothing computed, run or emitted yet
NoneDone ==
  [velAvg |-> Undef, regionVel |-> EmptyMap, stages |-> <<>>, echoed |-> 0,
   sent |-> <<>>, threw |-> FALSE]

\* no frame drawn yet
NoFrame == [at |-> -1, to |-> [cx |-> I(0), cy |-> I(0)]]

\* the state after setup(), the display attached or not
PipeInit ==
  /\ trackingStarted = FALSE
  /\ poses = <<>>
  /\ emotionSliders = ZeroSliders(EmotionSet)
  /\ regionSliders = ZeroSliders(SliderRegions)
  /\ movementVelocity = I(0) /\ fastVel = I(0) /\ slowVel = I(0)
  /\ smoothedStructure = I(0) /\ smoothedBalance = I(0)
  /\ smoothedPostureLean = I(0) /\ smoothedAvgY = I(0)
  /\ prevKeypoints = EmptyMap /\ prevByPart = EmptyMap
  /\ followPose = FALSE
  /\ poseTx = I(0) /\ poseTy = I(0) /\ poseSeenAt = 0
  /\ lastPoseEmitAt = 0 /\ lastEmitMs = 0 /\ lastEcho = 0
  /\ blockIncomingUntil = 0
  /\ sadnessInMax = Undef
  /\ lastArg = NoArg
  /\ ticks = 0 /\ applies = 0 /\ ops = 0
  /\ done = NoneDone
  /\ lastTransformAt = -1
  /\ frame = NoFrame

\* both scripts loaded and setup() run, nothing queued, no print pending
PageInit ==
  /\ sessionExists = TRUE /\ ebTrackingReady = TRUE /\ setupRan = TRUE
  /\ sessionStartQueued = FALSE /\ trackingStartQueued = FALSE
  /\ rafQueue = <<>> /\ prePrint = <<>>

SessionInit ==
  /\ now = 0
  /\ ebSession = ResetFields
  /\ out = NoSnapshot
  /\ hist = <<>>
  /\ phase = "new"
  /\ preSession = ResetFields
  /\ lastOp = "init"

Init ==
  /\ SessionInit
  /\ PipeInit
  /\ PageInit
  /\ display \in {"absent", "ok"}
  /\ ebSessionReady \in BOOLEAN
  /\ opLimit = MaxOps

(***************************************************************************)
(* Operations on the accumulator                                           *)
(***************************************************************************)
\* s.begin()
Begin ==
  /\ preSession' = ebSession
  /\ ebSession' = SessionBegin(ebSession, now)
  /\ hist' = <<>>
  /\ phase' = "begun"
  /\ lastOp' = "begin"
  /\ out' = NoSnapshot
  /\ UNCHANGED <<now, pipeVars>>

\* s.add(sample)
AddSample(sample) ==
  /\ Len(hist) < MaxAdds
  /\ preSession' = ebSession
  /\ ebSession' = SessionAdd(ebSession, sample, now)
  /\ hist' = IF ebSession.active THEN Append(hist, sample) ELSE hist
  /\ lastOp' = "add"
  /\ UNCHANGED <<now, out, phase, pipeVars>>

\* s.end()
End ==
  /\ preSession' = ebSession
  /\ out' = SessionSnapshot(ebSession, now)
  /\ ebSession' = SessionEnd(ebSession)
  /\ phase' = "ended"
  /\ lastOp' = "end"
  /\ UNCHANGED <<now, hist, pipeVars>>

\* time passes
AvgAdvance ==
  /\ now < MaxAvgNow
  /\ now' = now + 1
  /\ UNCHANGED <<avgVars, lastOp, pipeVars>>

vars == <<now, ebSession, out, hist, phase, preSession, lastOp, pipeVars>>

AvgInit ==
  /\ SessionInit
  /\ PipeInit
  /\ PageInit
  /\ display = "absent"
  /\ ebSessionReady = TRUE
  /\ opLimit = MaxOps

AvgNext ==
  \/ Begin
  \/ \E sample \in Samples : AddSample(sample)
  \/ End
  \/ AvgAdvance

SpecAvg == AvgInit /\ [][AvgNext]_vars

Next ==
  \/ \E dt \in TimeSteps : Advance(dt)
  \/ StartTracking
  \/ StopTracking
  \/ \E results \in Results : PoseEvent(results)
  \/ \E in \in ApplyInputs, force \in BOOLEAN : ApplySliders(in, force)
  \/ \E opts \in ResetOpts : ResetAll(opts)
  \/ BeginSession
  \/ EndSession
  \/ ToggleFollow

Spec == Init /\ [][Next]_vars

(***************************************************************************)
(* The render loop, and runs of the tick with a display that may fail      *)
(***************************************************************************)
CanvasWidth == 1200

\* blitSceneTranslateOnly, landscape: where translate(cx, cy) puts the scene
blitSceneTranslateOnly(st) ==
  LET vw == I(VideoWidth)
      vh == I(VideoHeight)
      sc == MathMin(Div(I(CanvasWidth), vw), Div(I(CanvasHeight), vh))
      cx == Div(I(CanvasWidth), I(2))
      cy == Div(I(CanvasHeight), I(2))
  IN  IF st.followPose /\ st.now - st.poseSeenAt < TUNE.follow.enabledFreshMs
      THEN [cx |-> Add(cx, Mul(Sub(st.poseTx, Div(vw, I(2))), sc)),
            cy |-> Add(cy, Mul(Sub(st.poseTy, Div(vh, I(2))), sc))]
      ELSE [cx |-> cx, cy |-> cy]

\* draw(): one frame of the render loop
Draw ==
  /\ ~(lastOp = "draw" /\ frame.at = now)
  /\ frame' = [at |-> now, to |-> blitSceneTranslateOnly(Cur)]
  /\ lastOp' = "draw"
  /\ UNCHANGED <<now, ebSession, out, hist, phase, preSession, lastArg,
                 trackingStarted, poses, emotionSliders, regionSliders,
                 movementVelocity, fastVel, slowVel,
                 smoothedStructure, smoothedBalance, smoothedPostureLean, smoothedAvgY,
                 prevKeypoints, prevByPart, followPose, poseTx, poseTy, poseSeenAt,
                 lastPoseEmitAt, lastEmitMs, lastEcho, blockIncomingUntil, sadnessInMax,
                 display, ebSessionReady, ticks, applies, ops,
                 sessionExists, ebTrackingReady, setupRan, sessionStartQueued,
                 trackingStartQueued, rafQueue, prePrint,
                 opLimit, done, lastTransformAt>>

MaxTickOps == 4
TickSteps == {300}

\* what the detector delivers in these runs
TickResults == {<<>>, <<PoseStand>>, <<PoseObscured>>}

\* a control panel sending values for sliders the pose also drives
TickApply ==
  [emotion |-> [joy |-> I(2)],
   region |-> [head |-> I(3), neck |-> I(2), chest |-> I(4)]]

TickInit ==
  /\ SessionInit
  /\ PipeInit
  /\ PageInit
  /\ display \in {"ok", "throws"}
  /\ ebSessionReady = TRUE
  /\ opLimit = MaxTickOps

TickNext ==
  \/ \E dt \in TickSteps : Advance(dt)
  \/ StartTracking
  \/ StopTracking
  \/ \E results \in TickResults : PoseEvent(results)
  \/ ApplySliders(TickApply, TRUE)

SpecTick == TickInit /\ [][TickNext]_vars

\* runs of the render loop next to the tick, the reset and the follow button
DrawSteps == {150}

DrawResults == {<<>>, <<PoseShift>>}

DrawInit ==
  /\ SessionInit
  /\ PipeInit
  /\ PageInit
  /\ display = "ok"
  /\ ebSessionReady = TRUE
  /\ opLimit = MaxOps

DrawNext ==
  \/ \E dt \in DrawSteps : Advance(dt)
  \/ StartTracking
  \/ \E results \in DrawResults : PoseEvent(results)
  \/ ResetAll(DefaultResetOpts)
  \/ ToggleFollow
  \/ Draw

SpecDraw == DrawInit /\ [][DrawNext]_vars

\* runs of the confidence filter: poses below, at and above kpMinScore, and
\* poses the detector delivers without a hip or without a shoulder
PoseDim == WithScore(PoseStand, Parts, Q(3, 10))
PoseEdge == WithScore(PoseShift, Parts, TUNE.velocity.kpMinScore)
PoseNoHip == MkPose(Q(9, 10), [p \in Parts \ {"leftHip"} |-> BasePos[p]], Q(9, 10))
PoseNoShoulder ==
  MkPose(Q(9, 10), [p \in Parts \ {"leftShoulder"} |-> BasePos[p]], Q(9, 10))

FilterResults == {<<PoseStand>>, <<PoseShift>>, <<PoseNoHip>>, <<PoseNoShoulder>>}

UnconfidentResults == {<<PoseDim>>, <<PoseEdge>>}

\* the detector delivers a pose none of whose keypoints passes the filter
UnconfidentPoseEvent(results) ==
  /\ ops < opLimit
  /\ Confident(results[1]) = {}
  /\ \E f \in {PoseHandler(Cur, results)} : Install(f, "pose", NoArg)
  /\ UNCHANGED <<ticks, applies>>

FilterInit ==
  /\ SessionInit
  /\ PipeInit
  /\ PageInit
  /\ display = "ok"
  /\ ebSessionReady = TRUE
  /\ opLimit = MaxTickOps

FilterNext ==
  \/ \E dt \in TickSteps : Advance(dt)
  \/ StartTracking
  \/ \E results \in FilterResults : PoseEvent(results)
  \/ \E results \in UnconfidentResults : UnconfidentPoseEvent(results)

SpecFilter == FilterInit /\ [][FilterNext]_vars

\* runs of the three throttles: ticks, applySliders calls and resets at
\* times 80 and 170 ms apart, and several at the same time
EmitSteps == {80, 170}

EmitInit ==
  /\ SessionInit
  /\ PipeInit
  /\ PageInit
  /\ display = "ok"
  /\ ebSessionReady = TRUE
  /\ opLimit = MaxOps

EmitNext ==
  \/ \E dt \in EmitSteps : Advance(dt)
  \/ StartTracking
  \/ PoseEvent(<<PoseStand>>)
  \/ ApplySliders(TickApply, TRUE)
  \/ ResetAll([DefaultResetOpts EXCEPT !.stopTrackingNow = FALSE])

SpecEmit == EmitInit /\ [][EmitNext]_vars

\* window.onPrint()
OnPrint ==
  /\ ops < opLimit
  /\ \E f \in {onPrintAverageThenSnapshot(Cur)} : Install(f, "onPrint", NoArg)
  /\ UNCHANGED <<ticks, applies>>

\* the browser runs the oldest pending frame callback
PrintFrame ==
  /\ ops < opLimit
  /\ rafQueue # <<>>
  /\ \E f \in {printFrame(Cur)} : Install(f, "printFrame", NoArg)
  /\ UNCHANGED <<ticks, applies>>

\* runs of the print flow: a session with samples, onPrint, and ticks and
\* applySliders calls before the frame callback runs
MaxPrintOps == 6

PrintResults == {<<PoseStand>>, <<PoseArms>>}

PrintInit ==
  /\ SessionInit
  /\ PipeInit
  /\ PageInit
  /\ display = "absent"
  /\ ebSessionReady = TRUE
  /\ opLimit = MaxPrintOps

PrintNext ==
  \/ StartTracking
  \/ \E results \in PrintResults : PoseEvent(results)
  \/ ApplySliders(TickApply, TRUE)
  \/ OnPrint
  \/ PrintFrame

SpecPrint == PrintInit /\ [][PrintNext]_vars

\* window.beginSession()
WindowBeginSession ==
  /\ ops < opLimit
  /\ \E f \in {beginSession(Cur)} : Install(f, "beginSession", NoArg)
  /\ UNCHANGED <<ticks, applies>>

\* window.startTracking()
WindowStartTracking ==
  /\ ops < opLimit
  /\ \E f \in {windowStartTracking(Cur)} : Install(f, "startTracking", NoArg)
  /\ UNCHANGED <<ticks, applies>>

\* window.__ebProcessQueued()
ProcessQueued ==
  /\ ops < opLimit
  /\ \E f \in {ebProcessQueued(Cur)} : Install(f, "processQueued", NoArg)
  /\ UNCHANGED <<ticks, applies>>

\* the browser has run sketch.js to its last line (sketch.js:253, 773-775)
SketchLoaded ==
  /\ ops < opLimit
  /\ ~ebTrackingReady
  /\ \E f \in {[Cur EXCEPT !.ebTrackingReady = TRUE]} : Install(f, "sketchLoaded", NoArg)
  /\ UNCHANGED <<ticks, applies>>

\* p5 calls setup()
Setup ==
  /\ ops < opLimit
  /\ ebTrackingReady /\ ~setupRan
  /\ \E f \in {setup(Cur)} : Install(f, "setup", NoArg)
  /\ UNCHANGED <<ticks, applies>>

\* the host page sets window.__ebSessionReady
SessionReady ==
  /\ ops < opLimit
  /\ ~ebSessionReady
  /\ \E f \in {[Cur EXCEPT !.ebSessionReady = TRUE]} : Install(f, "sessionReady", NoArg)
  /\ UNCHANGED <<ticks, applies>>

\* runs of the page coming up: eb-init.js loaded, sketch.js not yet
MaxQueueOps == 7

QueueInit ==
  /\ SessionInit
  /\ PipeInit
  /\ sessionExists = FALSE /\ ebTrackingReady = FALSE /\ setupRan = FALSE
  /\ sessionStartQueued = FALSE /\ trackingStartQueued = FALSE
  /\ rafQueue = <<>> /\ prePrint = <<>>
  /\ display = "absent"
  /\ ebSessionReady = FALSE
  /\ opLimit = MaxQueueOps

QueueNext ==
  \/ WindowBeginSession
  \/ WindowStartTracking
  \/ ProcessQueued
  \/ SketchLoaded
  \/ Setup
  \/ SessionReady

SpecQueue == QueueInit /\ [][QueueNext]_vars

(***************************************************************************)
(* Properties of the pipeline                                              *)
(***************************************************************************)
InRange05(v) == Le(I(0), v) /\ Le(v, I(5))

\* C5: every emotion value and every region width value of the slider store
\* is within [0,5] after any update by a pose tick, applySliders or resetAll
\* with finite inputs.
C5_ValuesWithinRange ==
  /\ \A n \in EmotionSet : InRange05(emotionSliders[n])
  /\ \A r \in RegionSet : InRange05(regionSliders[r])

\* the step is one operation of the pipeline
OpStep(name) == ops' = ops + 1 /\ lastOp' = name

\* the entries an applySliders argument names
AffectedEmotions(arg) == DOMAIN arg.emotion \cap EmotionSet
AffectedRegions(arg) == DOMAIN arg.region \cap SliderRegions

CarriesNonZero(arg) ==
  /\ \A k \in AffectedEmotions(arg) : arg.emotion[k] # I(0)
  /\ \A k \in AffectedRegions(arg) : arg.region[k] # I(0)
  /\ AffectedEmotions(arg) \cup AffectedRegions(arg) # {}

\* C6: when the operation before was resetAll and less than 600 ms have
\* passed since, an applySliders call without force that carries non-zero
\* values leaves every entry it names at 0 (and changes no other entry).
C6_CooldownRejectsApply ==
  [][(/\ OpStep("applySliders")
      /\ ~lastArg'.force
      /\ CarriesNonZero(lastArg')
      /\ lastOp = "resetAll"
      /\ now < blockIncomingUntil)
     => (/\ \A k \in AffectedEmotions(lastArg') : emotionSliders'[k] = I(0)
         /\ \A k \in AffectedRegions(lastArg') : regionSliders'[k] = I(0)
         /\ emotionSliders' = emotionSliders
         /\ regionSliders' = regionSliders)]_vars

\* resetAll at 0, 300 ms pass, then an unforced apply of non-zero values
C6_Witness ==
  /\ lastOp = "applySliders"
  /\ ~lastArg.force
  /\ CarriesNonZero(lastArg)
  /\ ops = 2
  /\ blockIncomingUntil = RESET_INPUT_BLOCK_MS
  /\ 0 < now /\ now < blockIncomingUntil
  /\ \A k \in AffectedEmotions(lastArg) : emotionSliders[k] = I(0)
  /\ \A k \in AffectedRegions(lastArg) : regionSliders[k] = I(0)

\* C7: resetAll with default options leaves every emotion, region and spine
\* entry at 0, the seven smoothed metrics at 0, both keypoint caches empty,
\* followPose false and the cooldown deadline at the current time + 600 ms,
\* whatever the state before.
C7_ResetAllDefault ==
  [][(OpStep("resetAll") /\ lastArg' = DefaultResetOpts)
     => (/\ emotionSliders' = ZeroSliders(EmotionSet)
         /\ regionSliders' = ZeroSliders(SliderRegions)
         /\ movementVelocity' = I(0) /\ fastVel' = I(0) /\ slowVel' = I(0)
         /\ smoothedStructure' = I(0) /\ smoothedBalance' = I(0)
         /\ smoothedPostureLean' = I(0) /\ smoothedAvgY' = I(0)
         /\ prevKeypoints' = EmptyMap
         /\ prevByPart' = EmptyMap
         /\ ~followPose'
         /\ blockIncomingUntil' = now' + RESET_INPUT_BLOCK_MS)]_vars

\* a default resetAll at a later time, after a pose tick filled the caches
C7_Witness ==
  /\ lastOp = "resetAll"
  /\ lastArg = DefaultResetOpts
  /\ ticks >= 1
  /\ now > 0
  /\ blockIncomingUntil = now + RESET_INPUT_BLOCK_MS
  /\ prevKeypoints = EmptyMap /\ prevByPart = EmptyMap
  /\ \A n \in EmotionSet : emotionSliders[n] = I(0)

\* C8: a detection tick changes the accumulator (its sample count or any
\* mean) only if tracking is started, the session is active and the tick's
\* primary pose has an overall score above 0.25.
C8_SampleOnlyWhenGated ==
  [][(OpStep("pose") /\ ebSession' # ebSession)
     => (/\ trackingStarted
         /\ ebSession.active
         /\ poses' # <<>>
         /\ Lt(SAMPLE_MIN_SCORE, poses'[1].score)
         /\ ebSession'.samples = ebSession.samples + 1)]_vars

\* a tick with a score of 0.25 while tracking and with a session open that
\* already holds a sample: the accumulator is as before the tick
C8_Witness ==
  /\ lastOp = "pose"
  /\ trackingStarted
  /\ ebSession.active
  /\ ebSession.samples >= 1
  /\ poses # <<>>
  /\ ~Lt(SAMPLE_MIN_SCORE, poses[1].score)
  /\ ebSession = preSession

\* an applySliders call that passes the cooldown test
Accepted(arg) == arg.force \/ now >= blockIncomingUntil

\* current + 0.35 * (supplied - current)
Blended(current, supplied) == Add(current, Mul(Q(35, 100), Sub(supplied, current)))

\* C12: an accepted applySliders call sets each present, known key to
\* current + 0.35 * (supplied - current) and leaves every slider entry whose
\* key is absent from the supplied maps unchanged.
C12_ApplyBlendsPresentKeys ==
  [][(OpStep("applySliders") /\ Accepted(lastArg')) =>
       /\ \A k \in EmotionSet :
             emotionSliders'[k] =
               IF k \in DOMAIN lastArg'.emotion
               THEN Blended(emotionSliders[k], lastArg'.emotion[k])
               ELSE emotionSliders[k]
       /\ \A k \in SliderRegions :
             regionSliders'[k] =
               IF k \in DOMAIN lastArg'.region
               THEN Blended(regionSliders[k], lastArg'.region[k])
               ELSE regionSliders[k]]_vars

\* the example: { anxiety: 5 } applied to a stored anxiety of 0 gave 1.75,
\* next to entries a pose tick had moved and the call left alone
C12_Witness ==
  /\ lastOp = "applySliders"
  /\ DOMAIN lastArg.emotion = {"anxiety"}
  /\ lastArg.emotion["anxiety"] = I(5)
  /\ emotionSliders["anxiety"] = Q(7, 4)
  /\ \E k \in EmotionSet \ {"anxiety"} : emotionSliders[k] # I(0)

\* the step stored the blend of every entry the argument names
AppliedTo(arg) ==
  /\ \A k \in AffectedEmotions(arg) :
        emotionSliders'[k] = lerp(emotionSliders[k], arg.emotion[k], BLEND)
  /\ \A k \in AffectedRegions(arg) :
        regionSliders'[k] = lerp(regionSliders[k], arg.region[k], BLEND)

\* C13: applySliders with the force option is applied even while the reset
\* cooldown is active, and applySliders without force is applied again once
\* the time has reached the deadline the most recent resetAll set.
C13_ForceAndExpiry ==
  [][/\ (OpStep("applySliders") /\ lastArg'.force /\ now < blockIncomingUntil)
          => AppliedTo(lastArg')
     /\ (OpStep("applySliders") /\ ~lastArg'.force
            /\ blockIncomingUntil > 0 /\ now >= blockIncomingUntil)
          => AppliedTo(lastArg')]_vars

\* a forced apply inside the cooldown of a resetAll changed the entries it names
C13_Witness ==
  /\ lastOp = "applySliders" /\ lastArg.force
  /\ blockIncomingUntil > 0 /\ now < blockIncomingUntil
  /\ CarriesNonZero(lastArg)
  /\ \A k \in AffectedEmotions(lastArg) : emotionSliders[k] # I(0)
  /\ \A k \in AffectedRegions(lastArg) : regionSliders[k] # I(0)

\* an apply without force at the very deadline of a resetAll changed the entries
C13_WitnessAtDeadline ==
  /\ lastOp = "applySliders" /\ ~lastArg.force
  /\ blockIncomingUntil > 0 /\ now = blockIncomingUntil
  /\ CarriesNonZero(lastArg)
  /\ \A k \in AffectedEmotions(lastArg) : emotionSliders[k] # I(0)
  /\ \A k \in AffectedRegions(lastArg) : regionSliders[k] # I(0)

\* a detection tick that the handler processed: tracking on, a pose delivered
ProcessedTick == OpStep("pose") /\ trackingStarted /\ poses' # <<>>

\* the keypoints whose presence guards a region's update
GuardParts ==
  [armsHands |-> Wrists \cup Shoulders, chest |-> Shoulders,
   abdomen |-> Shoulders \cup Hips, legsFeet |-> Ankles \cup Hips,
   spine |-> Shoulders]

\* the pose lacks what region r requires: one of its guard keypoints, or for
\* the head and the neck every keypoint their velocity is measured on
LacksRequired(pose, r) ==
  IF r \in DOMAIN GuardParts THEN ~Got(pose, GuardParts[r])
  ELSE regionKeypoints[r] \cap Confident(pose) = {}

\* C14: a region whose required keypoints are absent or below confidence in
\* a tick keeps the slider value it had before the tick.
C14_MissingKeypointsKeepValue ==
  [][ProcessedTick =>
        \A r \in SliderRegions :
           LacksRequired(poses'[1], r) => regionSliders'[r] = regionSliders[r]]_vars

\* the same for the five regions whose update the code guards
GuardedRegionsKeepValue ==
  [][ProcessedTick =>
        \A r \in DOMAIN GuardParts :
           LacksRequired(poses'[1], r) => regionSliders'[r] = regionSliders[r]]_vars

\* a tick without confident shoulders after the chest slider had been set
GuardedRegionsKept ==
  /\ lastOp = "pose" /\ poses = <<PoseObscured>>
  /\ regionSliders["chest"] # I(0)

\* C15: when a processed tick delivers the very keypoints of the processed
\* tick before it, the global velocity and the velocity of every region
\* computed in it are exactly 0.
C15_IdenticalTicksZeroVelocity ==
  [][(ProcessedTick /\ lastOp = "pose" /\ poses' = poses) =>
        /\ done'.velAvg = I(0)
        /\ DOMAIN done'.regionVel = RegionSet
        /\ \A r \in RegionSet : done'.regionVel[r] = I(0)]_vars

\* a second tick with the shifted pose found it cached and measured 0
\* everywhere (after a first tick with any other pose it measures more)
C15_Witness ==
  /\ lastOp = "pose" /\ ticks = 2 /\ poses = <<PoseShift>>
  /\ done.velAvg = I(0)
  /\ DOMAIN done.regionVel = RegionSet
  /\ \A r \in RegionSet : done.regionVel[r] = I(0)

\* two different poses in a row measure a velocity
MovementMeasured ==
  lastOp = "pose" /\ ticks = 2 /\ Lt(I(0), done.velAvg)
    /\ \E r \in RegionSet : Lt(I(0), done.regionVel[r])

\* a frame was drawn in this step
DrawStep == lastOp' = "draw" /\ <<lastOp, frame>> # <<lastOp', frame'>>

\* the middle of the canvas
Centre == [cx |-> Div(I(CanvasWidth), I(2)), cy |-> Div(I(CanvasHeight), I(2))]

\* a pose moved the transform less than the freshness window ago
FreshTransform ==
  lastTransformAt >= 0 /\ now - lastTransformAt < TUNE.follow.enabledFreshMs

\* C16: a frame is drawn off the centre only when follow is enabled and a
\* successful transform update occurred less than 300 ms before it.
C16_FollowOnlyWhenFresh ==
  [][(DrawStep /\ frame'.to # Centre) => (followPose /\ FreshTransform)]_vars

\* the same once a pose has moved the transform: a transform older than the
\* freshness window is not applied
StaleTransformNotApplied ==
  [][(DrawStep /\ frame'.to # Centre /\ lastTransformAt >= 0) =>
        (followPose /\ FreshTransform)]_vars

\* a frame drawn at the centre with follow on, the transform being too old
StaleTransformIgnored ==
  /\ lastOp = "draw" /\ frame.at = now /\ followPose
  /\ lastTransformAt >= 0 /\ now - lastTransformAt >= TUNE.follow.enabledFreshMs
  /\ poseTx # Div(I(VideoWidth), I(2))
  /\ frame.to = Centre

\* a frame drawn off the centre with follow on and a fresh transform
FreshTransformApplied ==
  /\ lastOp = "draw" /\ frame.at = now /\ followPose /\ FreshTransform
  /\ frame.to # Centre

\* the sampling gate is open for the pose a tick delivers
GateOpenFor(pose) == ebSession.active /\ Lt(SAMPLE_MIN_SCORE, pose.score)

\* C17: when a call to the display fails during a detection tick, the tick
\* still updates the pipeline state and still adds the gated session sample.
C17_DisplayFailureDoesNotHaltTick ==
  [][(ProcessedTick /\ display = "throws" /\ done'.threw) =>
        /\ prevKeypoints' = [p \in Confident(poses'[1]) |-> PosOf(poses'[1], p)]
        /\ GateOpenFor(poses'[1]) => ebSession'.samples = ebSession.samples + 1]_vars

\* the pipeline state is updated before the first call to the display
FailureAfterPipelineUpdate ==
  [][(ProcessedTick /\ display = "throws" /\ done'.threw) =>
        /\ prevKeypoints' = [p \in Confident(poses'[1]) |-> PosOf(poses'[1], p)]
        /\ "coupling" \in {done'.stages[i] : i \in DOMAIN done'.stages}]_vars

\* a tick in which the display failed while the session was recording
DisplayFailedInTick ==
  /\ lastOp = "pose" /\ done.threw /\ display = "throws"
  /\ ebSession.active /\ poses # <<>>

\* the slider store, the smoothed scalars, the keypoint caches, the pose
\* transform and the session accumulator
PipelineState ==
  <<emotionSliders, regionSliders,
    movementVelocity, fastVel, slowVel,
    smoothedStructure, smoothedBalance, smoothedPostureLean, smoothedAvgY,
    prevKeypoints, prevByPart, poseTx, poseTy, poseSeenAt, ebSession>>

\* C18: a detection event while tracking is stopped changes nothing of the
\* pipeline state, and stopping tracking changes nothing of it either.
C18_StoppedTickChangesNothing ==
  [][((OpStep("pose") /\ ~trackingStarted) \/ OpStep("stopTracking")) =>
        UNCHANGED PipelineState]_vars

\* a detection event after tracking was stopped, on a pipeline that a
\* processed tick had filled and with a sample in the session
C18_Witness ==
  /\ lastOp = "pose" /\ ~trackingStarted /\ ticks >= 1
  /\ prevKeypoints # EmptyMap
  /\ ebSession.samples >= 1
  /\ \E r \in RegionSet : regionSliders[r] # I(0)

\* C19: every resetAll call with echo enabled, the display being present,
\* emits an echo, whatever echoes were emitted shortly before it.
C19_ResetAlwaysEchoes ==
  [][(OpStep("resetAll") /\ lastArg'.echo /\ display = "ok") =>
        done'.echoed >= 1]_vars

\* resetAll echoes when the last echo is at least 250 ms old
ResetEchoesWhenNotThrottled ==
  [][(OpStep("resetAll") /\ lastArg'.echo /\ display = "ok"
        /\ now - lastEcho >= ECHO_MS) =>
        done'.echoed = 1 /\ lastEcho' = now]_vars

\* a resetAll that echoed
ResetEchoed == lastOp = "resetAll" /\ done.echoed = 1

\* a resetAll right after an applySliders call that had echoed
ResetEchoDropped ==
  /\ lastOp = "resetAll" /\ lastArg.echo /\ display = "ok"
  /\ applies = 1 /\ lastEcho = now /\ now > 0
  /\ done.echoed = 0

\* the place of each stage in the order the specification gives: velocity
\* and cache update, affect mapping, region coupling, follow-transform
\* update, session sampling, throttled external emission
StatedRank ==
  [velocity |-> 1, affect |-> 2, coupling |-> 3, transform |-> 4, anchor |-> 4,
   sampling |-> 5, echo |-> 6, metrics |-> 6, poseEmit |-> 6]

\* the place of each stage in the order of the handler's statements
HandlerRank ==
  [velocity |-> 1, affect |-> 2, transform |-> 3, coupling |-> 4, anchor |-> 5,
   echo |-> 6, sampling |-> 7, metrics |-> 8, poseEmit |-> 9]

\* no stage of the sequence ran before one that ranks lower
InOrder(stages, rank) ==
  \A i, j \in DOMAIN stages : i < j => rank[stages[i]] <= rank[stages[j]]

\* C20: within every processed tick the stages run in the order velocity
\* and cache update, affect mapping, region coupling, follow-transform
\* update, session sampling, throttled external emission.
C20_StageOrder ==
  [][ProcessedTick => InOrder(done'.stages, StatedRank)]_vars

\* the stages of every tick run in the order of the handler's statements
HandlerStageOrder ==
  [][ProcessedTick => InOrder(done'.stages, HandlerRank)]_vars

\* a tick that ran all its stages
FullTick == lastOp = "pose" /\ Len(done.stages) = 9

\* the velocity of region r as stated: the mean normalized displacement of
\* the region's confident parts between the per-part cache as the previous
\* tick left it and the pose
StatedRegionVelocity(pose, r, cache) ==
  MeanDisplacement(pose, cache,
                   regionKeypoints[r] \cap Confident(pose) \cap DOMAIN cache)

\* C21: in every processed tick the velocity computed for a region is the
\* mean normalized displacement of its confident parts since the previous
\* tick, whichever regions were evaluated before it in the same tick.
C21_RegionVelocityIndependent ==
  [][ProcessedTick =>
        \A r \in DOMAIN done'.regionVel :
           done'.regionVel[r] = StatedRegionVelocity(poses'[1], r, prevByPart)]_vars

\* the regions whose parts no region evaluated before them shares
UnsharedRegions == {"head", "neck", "armsHands", "abdomen", "legsFeet"}

\* the same for the regions evaluated before any region sharing their parts
UnsharedRegionVelocity ==
  [][ProcessedTick =>
        \A r \in DOMAIN done'.regionVel \cap UnsharedRegions :
           done'.regionVel[r] = StatedRegionVelocity(poses'[1], r, prevByPart)]_vars

\* a tick in which the body moved and the chest, evaluated after the neck
\* and the arms, measured no movement
ChestVelocityLost ==
  /\ lastOp = "pose" /\ poses # <<>>
  /\ "chest" \in DOMAIN done.regionVel /\ "neck" \in DOMAIN done.regionVel
  /\ done.regionVel["chest"] = I(0) /\ done.regionVel["neck"] # I(0)

\* a tick has updated `cache` into `cache2` as stated: the confident parts
\* of the pose hold their new position, every other cached part its old one
OverwritesConfidentOnly(pose, cache, cache2) ==
  /\ \A p \in Confident(pose) : p \in DOMAIN cache2 /\ cache2[p] = PosOf(pose, p)
  /\ \A p \in DOMAIN cache \ Confident(pose) : p \in DOMAIN cache2 /\ cache2[p] = cache[p]

\* C22: in the global and in the per-part keypoint cache a processed tick
\* overwrites the position of exactly the parts passing the confidence
\* filter, and every part failing it keeps its last cached position.
C22_CachesKeepUnconfidentParts ==
  [][ProcessedTick =>
        /\ OverwritesConfidentOnly(poses'[1], prevKeypoints, prevKeypoints')
        /\ OverwritesConfidentOnly(poses'[1], prevByPart, prevByPart')]_vars

\* the per-part cache never loses or changes a part that fails confidence
PerPartCacheKeepsUnconfident ==
  [][ProcessedTick =>
        \A p \in DOMAIN prevByPart \ Confident(poses'[1]) :
           p \in DOMAIN prevByPart' /\ prevByPart'[p] = prevByPart[p]]_vars

\* the global cache is replaced by the confident parts of the tick
GlobalCacheIsConfidentParts ==
  [][ProcessedTick /\ Confident(poses'[1]) # {} =>
        prevKeypoints' = [p \in Confident(poses'[1]) |-> PosOf(poses'[1], p)]]_vars

\* after a tick with the head below confidence the global cache has lost the
\* nose that the per-part cache still holds
GlobalCacheDroppedPart ==
  /\ lastOp = "pose" /\ poses = <<PoseObscured>>
  /\ "nose" \in DOMAIN prevByPart /\ "nose" \notin DOMAIN prevKeypoints
  /\ prevKeypoints # EmptyMap

\* what updatePoseFactors reads and writes besides the sliders
SmoothedScalars ==
  <<movementVelocity, fastVel, slowVel, smoothedStructure, smoothedBalance,
    smoothedPostureLean, smoothedAvgY>>

\* C23: a processed tick none of whose keypoints passes the confidence
\* filter leaves the global keypoint cache, every smoothed scalar and every
\* emotion entry as they were.
C23_NoConfidentKeypointNoUpdate ==
  [][ProcessedTick /\ Confident(poses'[1]) = {} =>
        /\ prevKeypoints' = prevKeypoints
        /\ SmoothedScalars' = SmoothedScalars
        /\ emotionSliders' = emotionSliders]_vars

\* a tick below confidence that followed a confident one: the cache and the
\* emotions it left are still there
C23_Witness ==
  /\ lastOp = "pose" /\ poses = <<PoseDim>>
  /\ prevKeypoints = [p \in Parts |-> PosOf(PoseStand, p)]
  /\ emotionSliders["sadness"] # I(0)

\* every tick with a confident keypoint measures its velocity against the
\* cache as the ticks before it left it
VelocityAgainstLastCache ==
  [][ProcessedTick /\ Confident(poses'[1]) # {} =>
        done'.velAvg = MeanDisplacement(poses'[1], prevKeypoints,
                                        Confident(poses'[1]) \cap DOMAIN prevKeypoints)]_vars

\* the parts of a pose reported with exactly the threshold confidence
AtThreshold(pose) ==
  {p \in DOMAIN pose.kp : pose.kp[p].score = TUNE.velocity.kpMinScore}

\* C24: a keypoint whose confidence equals the threshold passes the filter:
\* the tick computes the global velocity with it and both caches hold its
\* position afterwards.
C24_ThresholdKeypointPasses ==
  [][ProcessedTick /\ AtThreshold(poses'[1]) # {} =>
        /\ done'.velAvg # Undef
        /\ \A p \in AtThreshold(poses'[1]) :
              /\ p \in DOMAIN prevKeypoints' /\ prevKeypoints'[p] = PosOf(poses'[1], p)
              /\ p \in DOMAIN prevByPart' /\ prevByPart'[p] = PosOf(poses'[1], p)]_vars

\* a keypoint above the threshold passes: the global cache holds it afterwards
AboveThresholdPasses ==
  [][ProcessedTick =>
        \A p \in DOMAIN poses'[1].kp :
           Lt(TUNE.velocity.kpMinScore, poses'[1].kp[p].score)
             => p \in DOMAIN prevKeypoints' /\ prevKeypoints'[p] = PosOf(poses'[1], p)]_vars

\* a tick whose keypoints were all at the threshold went by without a
\* velocity, the caches still at the positions of the tick before
ThresholdTickFiltered ==
  /\ lastOp = "pose" /\ poses = <<PoseEdge>>
  /\ done.velAvg = Undef
  /\ prevKeypoints = [p \in Parts |-> PosOf(PoseStand, p)]
  /\ prevByPart = [p \in Parts |-> PosOf(PoseStand, p)]

\* C25: a pose lacking a shoulder or a hip raises no error in the tick, and
\* balance, avgY and the emotion entries stay finite on it and on every
\* later tick.
C25_MissingGeometryAbsorbed ==
  /\ ~done.threw
  /\ IsFinite(smoothedBalance) /\ IsFinite(smoothedAvgY)
  /\ \A n \in EmotionSet : IsFinite(emotionSliders[n])

\* the two computations that test for their keypoints are skipped cleanly
GuardedGeometryAbsorbed ==
  IsFinite(smoothedStructure) /\ IsFinite(smoothedPostureLean)

\* after a tick without the left hip the balance and the calm entry are NaN
BalanceNotANumber ==
  /\ lastOp = "pose" /\ poses = <<PoseNoHip>> /\ ~done.threw
  /\ smoothedBalance = NaN /\ emotionSliders["calm"] = NaN

\* the NaN stays when complete poses follow
BalanceStaysNotANumber ==
  /\ lastOp = "pose" /\ poses = <<PoseStand>>
  /\ smoothedBalance = NaN /\ emotionSliders["calm"] = NaN

\* a tick without the left shoulder ended in updatePoseFactors
TickEndedInAffect ==
  /\ lastOp = "pose" /\ poses = <<PoseNoShoulder>>
  /\ done.threw /\ done.stages = <<"velocity">>

\* the three rate-limited messages, the stamp the program keeps for each
\* and the least time between two of them
Channels == {"metrics", "keypoints", "echo"}
Stamp(channel) ==
  IF channel = "metrics" THEN lastEmitMs
  ELSE IF channel = "keypoints" THEN lastPoseEmitAt
  ELSE lastEcho
Period(channel) ==
  IF channel = "metrics" THEN METRICS_EMIT_MS
  ELSE IF channel = "keypoints" THEN POSE_EMIT_MS
  ELSE ECHO_MS

SentOn(channel, sent) == \E i \in 1..Len(sent) : sent[i] = channel

\* C26: whatever the order of ticks, applySliders calls and resets, a
\* message on a channel is sent no sooner than the channel's period after the
\* one before it: the stamp of a channel is the time of its last message, it
\* never goes back, and a message is sent only a period or more after it.
C26_EmissionsRateLimited ==
  [][\A c \in Channels :
        /\ Stamp(c)' >= Stamp(c)
        /\ ops' # ops /\ SentOn(c, done'.sent) =>
              /\ Stamp(c)' = now'
              /\ now' - Stamp(c) >= Period(c)]_vars

\* a tick 170 ms after an echo: the metrics and the keypoints went out, the
\* echo was held back
C26_Witness ==
  /\ lastOp = "pose" /\ poses # <<>>
  /\ lastEcho = 250 /\ now = 420
  /\ SentOn("metrics", done.sent) /\ SentOn("keypoints", done.sent)
  /\ ~SentOn("echo", done.sent)

\* a reset at the very time of a tick that sent all three: nothing is sent
ResetHeldBack ==
  /\ lastOp = "resetAll" /\ done.sent = <<>>
  /\ lastEcho = now /\ lastEmitMs = now /\ now >= 250

\* C27: when the frame callback of a print has run, every emotion slider,
\* every region slider, the spine slider and the four smoothed scalars are
\* what they were immediately before that print, whatever ticks and
\* applySliders calls ran in between.
C27_PrintRestoresLiveValues ==
  [][OpStep("printFrame") =>
        /\ emotionSliders' = Head(prePrint).emotionSliders
        /\ regionSliders' = Head(prePrint).regionSliders
        /\ smoothedStructure' = Head(prePrint).smoothedStructure
        /\ smoothedBalance' = Head(prePrint).smoothedBalance
        /\ smoothedPostureLean' = Head(prePrint).smoothedPostureLean
        /\ movementVelocity' = Head(prePrint).movementVelocity]_vars

\* restored after a print of one sample, a second tick having run between
\* the print and the callback: the session was over, the tick left no sample
C27_Witness ==
  /\ lastOp = "printFrame"
  /\ ticks = 2 /\ poses = <<PoseArms>>
  /\ ~ebSession.active /\ ebSession.samples = 1
  /\ regionSliders["spine"] # I(0) /\ emotionSliders["joy"] # out.emotions["joy"]

\* the same with an applySliders call between the print and the callback
RestoredAfterApply ==
  /\ lastOp = "printFrame" /\ applies = 1 /\ ebSession.samples = 2
  /\ emotionSliders["joy"] # out.emotions["joy"]

\* how often the stage `name` ran in an operation
TimesRan(name, stages) == Cardinality({i \in 1..Len(stages) : stages[i] = name})

SessionIsReady == sessionExists /\ ebSessionReady

\* a beginSession() call before the session is ready records the request
\* and changes nothing else
BeginRequestRecorded ==
  sessionStartQueued'
  /\ UNCHANGED <<ebSession, sessionExists, trackingStarted, trackingStartQueued>>

\* a startTracking() call before tracking is ready does the same
TrackingRequestRecorded ==
  trackingStartQueued'
  /\ UNCHANGED <<ebSession, sessionExists, trackingStarted, sessionStartQueued>>

\* __ebProcessQueued() leaves a request recorded while its flag is not set,
\* and once it is set executes the request once and clears the queued flag
QueueProcessed ==
  /\ sessionStartQueued /\ ~SessionIsReady
       => sessionStartQueued' /\ ebSession' = ebSession
  /\ trackingStartQueued /\ ~ebTrackingReady
       => trackingStartQueued' /\ trackingStarted' = trackingStarted
  /\ sessionStartQueued /\ SessionIsReady
       => ~sessionStartQueued' /\ TimesRan("begin", done'.stages) = 1
          /\ ebSession'.active
  /\ trackingStartQueued /\ ebTrackingReady
       => ~trackingStartQueued' /\ TimesRan("startTracking", done'.stages) = 1
          /\ trackingStarted'
  /\ ~sessionStartQueued => TimesRan("begin", done'.stages) = 0
  /\ ~trackingStartQueued => TimesRan("startTracking", done'.stages) = 0

\* C28: a beginSession() or startTracking() call made before the ready
\* flag it depends on is set records the request and changes nothing else;
\* __ebProcessQueued() leaves it recorded while not ready, and the first
\* call after readiness executes it once and clears its flag.
C28_QueuedRequestsNotLost ==
  [][/\ OpStep("beginSession") /\ ~SessionIsReady => BeginRequestRecorded
     /\ OpStep("startTracking") /\ ~ebTrackingReady => TrackingRequestRecorded
     /\ OpStep("processQueued") => QueueProcessed]_vars

\* the same with beginSession() restricted to the function eb-init.js
\* installs, which is in place until sketch.js has been loaded
QueueOfInitScript ==
  [][/\ OpStep("beginSession") /\ ~ebTrackingReady => BeginRequestRecorded
     /\ OpStep("startTracking") /\ ~ebTrackingReady => TrackingRequestRecorded
     /\ OpStep("processQueued") => QueueProcessed]_vars

\* both requests, recorded before sketch.js was loaded, have been executed
QueuedRequestsExecuted ==
  /\ lastOp = "processQueued"
  /\ TimesRan("begin", done.stages) = 1 /\ TimesRan("startTracking", done.stages) = 1
  /\ ebSession.active /\ trackingStarted
  /\ ~sessionStartQueued /\ ~trackingStartQueued

\* beginSession() called after sketch.js was loaded and before the ready
\* flag: the session has begun and nothing is recorded
BegunBeforeReady ==
  /\ lastOp = "beginSession" /\ ~ebSessionReady
  /\ ebSession.active /\ ~sessionStartQueued

\* such a call made before setup(): setup() has replaced the session that
\* had begun, and no request is recorded
RequestLostInSetup ==
  /\ lastOp = "setup" /\ preSession.active
  /\ ~ebSession.active /\ ~sessionStartQueued

\* the counters of the field means of an accumulator
FieldCounters(s) ==
  {s[f].n : f \in ScalarFields} \cup {s.emotions[k].n : k \in EmotionSet}
    \cup {s.regionWidths.n, s.segmentProfile.n}

\* C29: every field counter is at most the sample count, the sample count
\* is the number of add() calls accepted since the last begin(), and end()
\* changes no counter and no mean.
C29_CountersWithinSamples ==
  /\ \A n \in FieldCounters(ebSession) : n <= ebSession.samples
  /\ ebSession.samples = Len(hist)
  /\ lastOp = "end" => [ebSession EXCEPT !.active = preSession.active] = preSession

\* ended after three samples of which some field values were not finite or
\* absent: counters below the sample count
C29_Witness ==
  /\ lastOp = "end" /\ ebSession.samples = 3
  /\ ebSession.structure.n < 3 /\ ebSession.segmentProfile.n < 3
  /\ ebSession.regionWidths.n = 3

\* the estimate a write has blended in, if it moved `old` to `new` by the
\* fraction `amt` of the way: new = lerp(old, estimate, amt)
BlendedEstimate(old, new, amt) == Add(old, Div(Sub(new, old), amt))

\* the blend fraction of a pose-driven write
BlendOf(name) ==
  IF name \in EmotionSet THEN TUNE.emotions.blendPoseVsSlider
  ELSE TUNE.coupling[name].lerp

\* an entry that was within [0,5] is within [0,5] after the write, and has
\* moved the blend fraction of the way towards a value within [0,5]
RangeKeptByBlend(name, old, new) ==
  InRange05(old) =>
     InRange05(new) /\ InRange05(BlendedEstimate(old, new, BlendOf(name)))

====
